---- MODULE Spec2Model ----
(***************************************************************************)
(* Metrics service: the ingestion and aggregation engine behind the        *)
(* /api/ai-tracking, /api/analytics, /api/performance and /api/metrics     *)
(* routes, the bearer-token middleware in front of them, the MongoDB       *)
(* collections they write and the prom-client registry they update.        *)
(*                                                                         *)
(* A request is handled in steps separated by the handler's awaits.  The   *)
(* steps of different requests interleave freely; the statements between   *)
(* two awaits run atomically (one JavaScript event-loop turn).             *)
(*   authMiddleware   the request arrives, the auth service answers        *)
(*   <Route>Check     validators, then the handler up to its first store   *)
(*                    read (findOne)                                       *)
(*   <Route>Save      the store executes the write, then the handler       *)
(*                    updates the registry and answers                     *)
(* A route with a single store operation runs in one step after            *)
(* authMiddleware.  The route and parameters of a request are inputs;      *)
(* they are drawn when the handler first reads them.                       *)
(***************************************************************************)
EXTENDS Integers, Sequences, FiniteSets, TLC

(***************************************************************************)
(* Bounds of the model.                                                    *)
(***************************************************************************)
\* Requests accepted over one run of the process.
MaxCalls == 3

\* Ticks of the clock over one run.
MaxClock == 3

\* Requests that can be in flight at the same time.
Slots == {"a", "b"}

(***************************************************************************)
(* Input domains.                                                          *)
(***************************************************************************)
Users == {"u1", "u2", "adm"}

\* The callers of the ingestion routes.
Callers == {"u1", "u2"}

\* The role field of the identity the auth service returns for a user.
Role(u) == IF u = "adm" THEN "admin" ELSE "user"

\* Authorization header of a request: absent or not "Bearer ...", a token
\* jwt.verify rejects, an expired token, a token without an id claim, or a
\* well-formed token of a user.
HeaderKinds == {"missing", "badjwt", "expired", "noid", "valid"}

\* What GET {AUTH_SERVICE_URL}/auth/me does: answers 200, answers another
\* 2xx (axios resolves), answers 4xx/5xx (axios rejects), exceeds the 5 s
\* timeout, or cannot be reached.
AuthOutcomes == {"200", "204", "401", "timeout", "unreachable"}

RequestIds == {"r1", "r2"}
Models == {"gpt-4", "claude-3", "gemini-pro"}
AIStatuses == {"pending", "processing", "completed", "failed", "cancelled"}
UpdateStatuses == {"processing", "completed", "failed", "cancelled"}

NoTokens == [input |-> 0, output |-> 0, total |-> 0]
\* The tokens object of an update body; its total is the caller's, and wrong.
GivenTokens == [input |-> 3, output |-> 1, total |-> 99]

\* Bodies of PUT /update/:requestId.  tokens is "absent" or "given" (the
\* object GivenTokens); cost 0 stands for an absent cost.
UpdateBodies ==
    {[status |-> st, tokens |-> "absent", cost |-> 0] : st \in {"processing", "completed", "pending"}}
    \cup {[status |-> "completed", tokens |-> "given", cost |-> 2],
          [status |-> "completed", tokens |-> "absent", cost |-> -1]}

TransactionIds == {"t1"}
SalesStatuses == {"pending", "completed", "failed", "cancelled", "refunded"}

\* Bodies of POST /sales/track: a subscription payment, pending or
\* completed, a completed refund with a negative amount, and a body with an
\* unknown status.
SalesBodies ==
    {[transactionId |-> t, type |-> "subscription", amount |-> 10, status |-> st, plan |-> "basic"] :
        t \in TransactionIds, st \in {"pending", "completed"}}
    \cup {[transactionId |-> t, type |-> "refund", amount |-> -5, status |-> "completed", plan |-> "basic"] :
        t \in TransactionIds}
    \cup {[transactionId |-> t, type |-> "subscription", amount |-> 10, status |-> "bogus", plan |-> "basic"] :
        t \in TransactionIds}

\* Bodies of POST /performance/track, with the x-request-id header
\* ("" when the header is absent).
PerfBodies ==
    {[xRequestId |-> x, service |-> "auth", endpoint |-> "/login", method |-> "POST",
      statusCode |-> c, responseTime |-> 100] :
        x \in {"", "p1"}, c \in {200, 99}}

\* Bodies of POST /engagement/track.
EngagementBodies ==
    {[event |-> e, sessionId |-> "s1"] : e \in {"login", "bogus"}}

VARIABLES
    aiRequests,   \* AIRequest collection, in insertion order
    salesTx,      \* SalesAnalytics collection
    perfSamples,  \* PerformanceMetrics collection
    engagements,  \* UserEngagement collection
    registry,     \* prom-client metric values of this process
    calls,        \* the requests in flight, by slot
    resp,         \* the response sent by the last step, NoResp if none
    ncalls,       \* requests received so far
    clock,        \* what new Date() returns, in ticks
    registered,   \* names of the metrics promClient.register holds
    server        \* how far startServer() has come, and with which connections

stores == <<aiRequests, salesTx, perfSamples, engagements>>
env == <<clock, registered, server>>
vars == <<aiRequests, salesTx, perfSamples, engagements, registry, calls, resp, ncalls,
          clock, registered, server>>

(***************************************************************************)
(* Responses.                                                              *)
(***************************************************************************)
NoResp ==
    [op |-> "none", status |-> 0, stage |-> "-", user |-> "-", key |-> "-",
     actors |-> {}, rollup |-> {}, n |-> 0, queried |-> FALSE,
     body |-> [kind |-> "none"], groups |-> <<>>, distributions |-> <<>>,
     revenue |-> [byPlan |-> <<>>, mrr |-> 0]]

\* res.status(status).json(...) of route op, sent at point stage of the
\* handler, to caller user, about natural key key.  queried: the handler
\* issued a store operation before answering.
Reply(op, status, stage, user, key) ==
    [op |-> op, status |-> status, stage |-> stage, user |-> user, key |-> key,
     actors |-> {}, rollup |-> {}, n |-> 0,
     queried |-> stage \notin {"auth", "role", "validate"},
     body |-> [kind |-> "none"], groups |-> <<>>, distributions |-> <<>>,
     revenue |-> [byPlan |-> <<>>, mrr |-> 0]]

Idle == [pc |-> "idle", user |-> "-", auth |-> "-", op |-> "-", idx |-> 0,
         doc |-> [requestId |-> "-"]]

\* The handler of slot s answers r and the request is over.
Finish(s, r) ==
    /\ calls' = [calls EXCEPT ![s] = Idle]
    /\ resp' = r

\* The handler of slot s awaits the save of doc d (document idx of the
\* collection when it was loaded from it).
AwaitSave(s, op, idx, d) ==
    /\ calls' = [calls EXCEPT ![s] = [@ EXCEPT !.pc = "save", !.op = op, !.idx = idx, !.doc = d]]
    /\ resp' = NoResp

(***************************************************************************)
(* Store helpers (MongoDB through mongoose).                               *)
(***************************************************************************)
\* Faulty variant of FindByRequestId: the existence check finds nothing.
FindByRequestIdNever(coll, requestId) == 0

\* Model.findOne({requestId}): index of a matching document, 0 if none.
FindByRequestId(coll, requestId) ==
    IF \E i \in 1..Len(coll) : coll[i].requestId = requestId
    THEN CHOOSE i \in 1..Len(coll) : coll[i].requestId = requestId
    ELSE 0

\* SalesAnalytics.findOne({transactionId}).
FindByTransactionId(coll, transactionId) ==
    IF \E i \in 1..Len(coll) : coll[i].transactionId = transactionId
    THEN CHOOSE i \in 1..Len(coll) : coll[i].transactionId = transactionId
    ELSE 0

\* Faulty variant of FindOwned: the lookup ignores the caller.
FindOwnedAnyOwner(coll, requestId, userId) ==
    IF \E i \in 1..Len(coll) : coll[i].requestId = requestId
    THEN CHOOSE i \in 1..Len(coll) : coll[i].requestId = requestId
    ELSE 0

\* AIRequest.findOne({requestId, userId}).
FindOwned(coll, requestId, userId) ==
    IF \E i \in 1..Len(coll) : coll[i].requestId = requestId /\ coll[i].userId = userId
    THEN CHOOSE i \in 1..Len(coll) : coll[i].requestId = requestId /\ coll[i].userId = userId
    ELSE 0

\* Faulty variant of DuplicateRequestId: the collection has no unique index.
NoUniqueIndex(coll, requestId) == FALSE

\* The unique index on requestId (AIRequest, PerformanceMetrics): an insert
\* of a key already present fails with E11000.
DuplicateRequestId(coll, requestId) ==
    \E i \in 1..Len(coll) : coll[i].requestId = requestId

\* The unique index on transactionId (SalesAnalytics).
DuplicateTransactionId(coll, transactionId) ==
    \E i \in 1..Len(coll) : coll[i].transactionId = transactionId

(***************************************************************************)
(* Registry helpers (utils/prometheus.js).                                 *)
(***************************************************************************)
\* Counter.inc(labels, value) of prom-client throws on a negative value.
CounterIncThrows(value) == value < 0

\* updateAIMetrics.incrementRequest
incrementRequest(reg, status) ==
    [reg EXCEPT !.ai_requests_total[status] = @ + 1]

\* updateAIMetrics.recordDuration
recordDuration(reg) ==
    [reg EXCEPT !.ai_request_duration_count = @ + 1]

\* updateAIMetrics.incrementTokens
incrementTokens(reg, count) ==
    [reg EXCEPT !.ai_request_tokens_total = @ + count]

\* updateAIMetrics.incrementCost
incrementCost(reg, cost) ==
    [reg EXCEPT !.ai_request_cost_total = @ + cost]

\* updateEngagementMetrics.incrementEvent
incrementEvent(reg) ==
    [reg EXCEPT !.user_engagement_events_total = @ + 1]

\* updateSalesMetrics.incrementTransaction
incrementTransaction(reg, status) ==
    [reg EXCEPT !.sales_transactions_total[status] = @ + 1]

\* updateSalesMetrics.incrementRevenue
incrementRevenue(reg, amount) ==
    [reg EXCEPT !.sales_revenue_total = @ + amount]

\* updatePerformanceMetrics.recordHttpRequest
recordHttpRequest(reg) ==
    [reg EXCEPT !.http_requests_total = @ + 1, !.http_request_duration_count = @ + 1]

(***************************************************************************)
(* Initial state: empty collections, registry at zero, nothing in flight.  *)
(***************************************************************************)
NodeEnvs == {"production", "development"}

\* The metrics utils/prometheus.js constructs and registers.
CustomMetrics ==
    {"ai_requests_total", "ai_request_duration_seconds", "ai_request_tokens_total",
     "ai_request_cost_total", "user_engagement_events_total", "sales_transactions_total",
     "sales_revenue_total", "http_request_duration_seconds", "http_requests_total"}

\* The registry's content once server.js has been loaded with NODE_ENV =
\* nodeEnv: the route modules, required first, load utils/prometheus.js,
\* which registers the custom metrics; server.js then clears the registry
\* unless in production.
RegisteredAfterLoad(nodeEnv) ==
    IF nodeEnv # "production" THEN {} ELSE CustomMetrics

\* The value of a Date field that is not set.
NoDate == 0

\* The values of the metrics right after their construction.
ZeroRegistry ==
    [ai_requests_total |-> [st \in AIStatuses |-> 0],
     ai_request_duration_count |-> 0,
     ai_request_tokens_total |-> 0,
     ai_request_cost_total |-> 0,
     user_engagement_events_total |-> 0,
     sales_transactions_total |-> [st \in SalesStatuses |-> 0],
     sales_revenue_total |-> 0,
     http_requests_total |-> 0,
     http_request_duration_count |-> 0]

\* startServer() is about to run: nothing is connected.
Starting == [phase |-> "connectDB", db |-> "unset", redis |-> "unset"]

\* startServer() has connected both and called app.listen.
Listening == [phase |-> "listening", db |-> "connected", redis |-> "ready"]

\* The state once the process has started with NODE_ENV = nodeEnv, MongoDB
\* and Redis being available.
Boot(nodeEnv) ==
    /\ server = Listening
    /\ aiRequests = <<>>
    /\ salesTx = <<>>
    /\ perfSamples = <<>>
    /\ engagements = <<>>
    /\ registry = ZeroRegistry
    /\ calls = [s \in Slots |-> Idle]
    /\ resp = NoResp
    /\ ncalls = 0
    /\ clock = 1
    /\ registered = RegisteredAfterLoad(nodeEnv)

\* The process runs with NODE_ENV unset.
Init == Boot("development")

\* The process runs in any environment mode.
InitAnyMode == \E nodeEnv \in NodeEnvs : Boot(nodeEnv)

(***************************************************************************)
(* middleware/auth.js                                                      *)
(***************************************************************************)
\* Faulty variant of AuthVerdict: any answer axios resolves is accepted.
AuthVerdictAny2xx(kind, outcome) ==
    IF kind # "valid" THEN 401
    ELSE IF outcome \in {"200", "204"} THEN 0
    ELSE 401

\* The status authMiddleware answers with, 0 when it calls next().
AuthVerdict(kind, outcome) ==
    IF kind = "missing" THEN 401
    ELSE IF kind \in {"badjwt", "expired", "noid"} THEN 401
    ELSE IF outcome = "200" THEN 0
    ELSE 401

\* What the identity-verification call of the request returned; "not-called"
\* when the middleware answered before making it.
Verification(kind, outcome) ==
    IF kind = "valid" THEN outcome ELSE "not-called"

\* Why authMiddleware rejected the request.
AuthFailure(kind, outcome) ==
    IF kind = "valid" THEN outcome ELSE kind

\* A request arrives in the first free slot.
FreeSlot(s) ==
    /\ calls[s].pc = "idle"
    /\ s = "b" => calls["a"].pc # "idle"

authMiddleware(s, kind, sub, outcome) ==
    /\ server.phase = "listening"
    /\ FreeSlot(s)
    /\ ncalls < MaxCalls
    /\ ncalls' = ncalls + 1
    /\ IF AuthVerdict(kind, outcome) = 0
       THEN /\ calls' = [calls EXCEPT ![s] = [Idle EXCEPT !.pc = "route", !.user = sub,
                                                         !.auth = Verification(kind, outcome)]]
            /\ resp' = NoResp
       ELSE /\ calls' = calls
            /\ resp' = Reply("auth", AuthVerdict(kind, outcome), "auth", "-", AuthFailure(kind, outcome))
    /\ UNCHANGED <<stores, registry, env>>

(***************************************************************************)
(* routes/aiTracking.js: POST /track                                       *)
(***************************************************************************)
\* Faulty variant of PreSave: the stored total is the one the caller sent.
PreSaveKeepsTotal(d) == d

\* aiRequestSchema.pre('save'): tokens.total is recomputed on every save
\* (an absent part is stored as 0 and counts as 0).
PreSave(d) ==
    [d EXCEPT !.tokens.total = d.tokens.input + d.tokens.output]

NewAIRequest(userId, requestId, model) ==
    [requestId |-> requestId, userId |-> userId, model |-> model,
     metadata |-> [feature |-> "other"],
     status |-> "pending", tokens |-> NoTokens, cost |-> 0,
     createdAt |-> clock, startTime |-> clock, endTime |-> NoDate, duration |-> 0]

AITrackCheck(s, requestId, model, storeUp) ==
    LET u == calls[s].user IN
    /\ calls[s].pc = "route"
    /\ IF requestId = "" \/ model \notin Models
       THEN Finish(s, Reply("ai.track", 400, "validate", u, requestId))
       ELSE IF ~storeUp
       THEN Finish(s, Reply("ai.track", 500, "store", u, requestId))
       ELSE IF FindByRequestId(aiRequests, requestId) # 0
       THEN Finish(s, Reply("ai.track", 409, "exists", u, requestId))
       ELSE AwaitSave(s, "ai.track", 0, NewAIRequest(u, requestId, model))
    /\ UNCHANGED <<stores, registry, ncalls, env>>

AITrackSave(s, storeUp) ==
    LET u == calls[s].user
        d == calls[s].doc IN
    /\ calls[s].pc = "save"
    /\ calls[s].op = "ai.track"
    /\ IF ~storeUp
       THEN /\ Finish(s, Reply("ai.track", 500, "store", u, d.requestId))
            /\ UNCHANGED <<aiRequests, registry>>
       ELSE IF DuplicateRequestId(aiRequests, d.requestId)
       THEN /\ Finish(s, Reply("ai.track", 500, "duplicate", u, d.requestId))
            /\ UNCHANGED <<aiRequests, registry>>
       ELSE /\ aiRequests' = Append(aiRequests, PreSave(d))
            /\ registry' = incrementRequest(registry, "pending")
            /\ Finish(s, Reply("ai.track", 201, "done", u, d.requestId))
    /\ UNCHANGED <<salesTx, perfSamples, engagements, ncalls, env>>

(***************************************************************************)
(* routes/aiTracking.js: PUT /update/:requestId                            *)
(***************************************************************************)
\* Faulty variant of Elapsed: the duration is the end time itself.
ElapsedSinceEpoch(endTime, startTime) == endTime

\* aiRequest.performance.endTime - aiRequest.performance.startTime
Elapsed(endTime, startTime) == endTime - startTime

\* The handler's assignments to the loaded document (lines 131-141).
ApplyUpdate(d, body) ==
    LET ends == body.status \in {"completed", "failed"} IN
    [d EXCEPT !.status = body.status,
              !.tokens = IF body.tokens = "given" THEN GivenTokens ELSE @,
              !.cost = IF body.cost # 0 THEN body.cost ELSE @,
              !.endTime = IF ends THEN clock ELSE @,
              !.duration = IF ends THEN Elapsed(clock, d.startTime) ELSE @]

AIUpdateCheck(s, requestId, body, storeUp) ==
    LET u == calls[s].user
        i == FindOwned(aiRequests, requestId, u) IN
    /\ calls[s].pc = "route"
    /\ IF body.status \notin UpdateStatuses
       THEN Finish(s, Reply("ai.update", 400, "validate", u, requestId))
       ELSE IF ~storeUp
       THEN Finish(s, Reply("ai.update", 500, "store", u, requestId))
       ELSE IF i = 0
       THEN Finish(s, Reply("ai.update", 404, "lookup", u, requestId))
       ELSE AwaitSave(s, "ai.update", i, ApplyUpdate(aiRequests[i], body))
    /\ UNCHANGED <<stores, registry, ncalls, env>>

\* The registry calls after a successful save (lines 146-159), in order.
UpdateMetricsSteps(d) ==
    <<[kind |-> "request", value |-> 1]>>
    \o (IF d.status = "completed"
        THEN <<[kind |-> "duration", value |-> 1]>>
             \o (IF d.tokens.input # 0 THEN <<[kind |-> "tokens", value |-> d.tokens.input]>> ELSE <<>>)
             \o (IF d.tokens.output # 0 THEN <<[kind |-> "tokens", value |-> d.tokens.output]>> ELSE <<>>)
             \o (IF d.cost # 0 THEN <<[kind |-> "cost", value |-> d.cost]>> ELSE <<>>)
        ELSE <<>>)

ApplyMetric(reg, d, m) ==
    IF m.kind = "request" THEN incrementRequest(reg, d.status)
    ELSE IF m.kind = "duration" THEN recordDuration(reg)
    ELSE IF m.kind = "tokens" THEN incrementTokens(reg, m.value)
    ELSE incrementCost(reg, m.value)

Throws(m) == m.kind \in {"tokens", "cost"} /\ CounterIncThrows(m.value)

\* Index of the first registry call that throws, Len + 1 if none does.
FirstThrow(steps) ==
    IF \E k \in 1..Len(steps) : Throws(steps[k])
    THEN CHOOSE k \in 1..Len(steps) :
            Throws(steps[k]) /\ \A j \in 1..(k - 1) : ~Throws(steps[j])
    ELSE Len(steps) + 1

\* The registry after the first n calls; a call that throws leaves the
\* earlier ones applied.
RECURSIVE ApplyMetrics(_, _, _, _)
ApplyMetrics(reg, d, steps, n) ==
    IF n = 0 THEN reg
    ELSE ApplyMetric(ApplyMetrics(reg, d, steps, n - 1), d, steps[n])

AIUpdateSave(s, storeUp) ==
    LET u == calls[s].user
        d == PreSave(calls[s].doc)
        steps == UpdateMetricsSteps(d)
        k == FirstThrow(steps) IN
    /\ calls[s].pc = "save"
    /\ calls[s].op = "ai.update"
    /\ IF ~storeUp
       THEN /\ Finish(s, Reply("ai.update", 500, "store", u, d.requestId))
            /\ UNCHANGED <<aiRequests, registry>>
       ELSE /\ aiRequests' = [aiRequests EXCEPT ![calls[s].idx] = d]
            /\ registry' = ApplyMetrics(registry, d, steps, k - 1)
            /\ IF k <= Len(steps)
               THEN Finish(s, Reply("ai.update", 500, "metrics", u, d.requestId))
               ELSE Finish(s, Reply("ai.update", 200, "done", u, d.requestId))
    /\ UNCHANGED <<salesTx, perfSamples, engagements, ncalls, env>>

(***************************************************************************)
(* routes/analytics.js: POST /engagement/track, POST /sales/track          *)
(***************************************************************************)
EngagementTrack(s, body, storeUp) ==
    LET u == calls[s].user IN
    /\ calls[s].pc = "route"
    /\ IF body.event = "bogus" \/ body.sessionId = ""
       THEN /\ Finish(s, Reply("engagement.track", 400, "validate", u, "-"))
            /\ UNCHANGED <<engagements, registry>>
       ELSE IF ~storeUp
       THEN /\ Finish(s, Reply("engagement.track", 500, "store", u, "-"))
            /\ UNCHANGED <<engagements, registry>>
       ELSE /\ engagements' = Append(engagements,
                   [userId |-> u, event |-> body.event, sessionId |-> body.sessionId,
                    timestamp |-> clock])
            /\ registry' = incrementEvent(registry)
            /\ Finish(s, Reply("engagement.track", 201, "done", u, "-"))
    /\ UNCHANGED <<aiRequests, salesTx, perfSamples, ncalls, env>>

NewSalesTransaction(userId, body) ==
    [transactionId |-> body.transactionId, userId |-> userId, type |-> body.type,
     amount |-> body.amount, status |-> body.status, plan |-> body.plan,
     createdAt |-> clock]

SalesTrackCheck(s, body, storeUp) ==
    LET u == calls[s].user IN
    /\ calls[s].pc = "route"
    /\ IF body.transactionId = "" \/ body.status \notin SalesStatuses
       THEN Finish(s, Reply("sales.track", 400, "validate", u, body.transactionId))
       ELSE IF ~storeUp
       THEN Finish(s, Reply("sales.track", 500, "store", u, body.transactionId))
       ELSE IF FindByTransactionId(salesTx, body.transactionId) # 0
       THEN Finish(s, Reply("sales.track", 409, "exists", u, body.transactionId))
       ELSE AwaitSave(s, "sales.track", 0, NewSalesTransaction(u, body))
    /\ UNCHANGED <<stores, registry, ncalls, env>>

SalesTrackSave(s, storeUp) ==
    LET u == calls[s].user
        d == calls[s].doc IN
    /\ calls[s].pc = "save"
    /\ calls[s].op = "sales.track"
    /\ IF ~storeUp
       THEN /\ Finish(s, Reply("sales.track", 500, "store", u, d.transactionId))
            /\ UNCHANGED <<salesTx, registry>>
       ELSE IF DuplicateTransactionId(salesTx, d.transactionId)
       THEN /\ Finish(s, Reply("sales.track", 500, "duplicate", u, d.transactionId))
            /\ UNCHANGED <<salesTx, registry>>
       ELSE /\ salesTx' = Append(salesTx, d)
            /\ IF d.status = "completed" /\ CounterIncThrows(d.amount)
               THEN /\ registry' = incrementTransaction(registry, d.status)
                    /\ Finish(s, Reply("sales.track", 500, "metrics", u, d.transactionId))
               ELSE /\ registry' = IF d.status = "completed"
                                   THEN incrementRevenue(incrementTransaction(registry, d.status), d.amount)
                                   ELSE incrementTransaction(registry, d.status)
                    /\ Finish(s, Reply("sales.track", 201, "done", u, d.transactionId))
    /\ UNCHANGED <<aiRequests, perfSamples, engagements, ncalls, env>>

(***************************************************************************)
(* routes/performance.js: POST /track                                      *)
(***************************************************************************)
\* generateRequestId(): req_<time>_<random>, distinct for every request.
generateRequestId == "req_" \o ToString(Len(perfSamples) + 1)

NewPerformanceMetrics(userId, requestId, body) ==
    [requestId |-> requestId, userId |-> userId, service |-> body.service,
     endpoint |-> body.endpoint, method |-> body.method,
     statusCode |-> body.statusCode, responseTime |-> body.responseTime,
     timestamp |-> clock]

PerfTrack(s, body, storeUp) ==
    LET u == calls[s].user
        requestId == IF body.xRequestId # "" THEN body.xRequestId ELSE generateRequestId IN
    /\ calls[s].pc = "route"
    /\ IF body.statusCode < 100 \/ body.statusCode > 599
       THEN /\ Finish(s, Reply("perf.track", 400, "validate", u, requestId))
            /\ UNCHANGED <<perfSamples, registry>>
       ELSE IF ~storeUp
       THEN /\ Finish(s, Reply("perf.track", 500, "store", u, requestId))
            /\ UNCHANGED <<perfSamples, registry>>
       ELSE IF DuplicateRequestId(perfSamples, requestId)
       THEN /\ Finish(s, Reply("perf.track", 500, "duplicate", u, requestId))
            /\ UNCHANGED <<perfSamples, registry>>
       ELSE /\ perfSamples' = Append(perfSamples, NewPerformanceMetrics(u, requestId, body))
            /\ registry' = recordHttpRequest(registry)
            /\ Finish(s, Reply("perf.track", 201, "done", u, requestId))
    /\ UNCHANGED <<aiRequests, salesTx, engagements, ncalls, env>>

(***************************************************************************)
(* Read routes.  A query string may carry userId ("" when it does not).    *)
(* The result of an aggregation is represented by the number of documents  *)
(* it was computed from and the set of their actors.                       *)
(***************************************************************************)
QueryStrings == [userId : Users \cup {""}]

\* { userId: req.user.id, ...req.query }: a key of the query string
\* replaces the key written before the spread.
ScopedFilters(user, q) ==
    [userId |-> IF q.userId # "" THEN q.userId ELSE user]

\* const filters = req.query (the admin routes and the performance views).
RawFilters(q) == [userId |-> q.userId]

\* isAdmin ? filters : { ...filters, userId } (routes/metrics.js).
RoleFilters(user) ==
    [userId |-> IF Role(user) = "admin" THEN "" ELSE user]

\* if (filters.userId) matchStage.userId = filters.userId
MatchUser(coll, filters) ==
    {i \in 1..Len(coll) : filters.userId = "" \/ coll[i].userId = filters.userId}

\* matchStage.<field> = { $gte: new Date(filters.startDate), $lte: new
\* Date(filters.endDate) }, each bound only when filters carries it.
MatchPeriod(coll, field, filters, m) ==
    {i \in m :
        /\ "startDate" \in DOMAIN filters => coll[i][field] >= filters.startDate
        /\ "endDate" \in DOMAIN filters => coll[i][field] <= filters.endDate}

\* What an aggregation returned: n documents matched, of these actors; body
\* is the object returned where the model computes one, groups the list of
\* groups where the pipeline groups by a key.
NoBody == [kind |-> "none"]

Aggregate(coll, matched) ==
    [n |-> Cardinality(matched), actors |-> {coll[i].userId : i \in matched},
     body |-> NoBody, groups |-> <<>>]

\* { $sum: <field> } over the documents S, f giving the field by index.
RECURSIVE SumOf(_, _)
SumOf(f, S) ==
    IF S = {} THEN 0
    ELSE LET i == CHOOSE x \in S : TRUE IN f[i] + SumOf(f, S \ {i})

\* { $sum: { $cond: [..., 1, 0] } }
CountOf(S) == Cardinality(S)

\* A number sum / count; { $avg: <field> } over the documents S that have
\* the field.
Rat(sum, count) == [sum |-> sum, count |-> count]

AvgOf(f, S) == Rat(SumOf(f, S), Cardinality(S))

\* A Stats object: the integer fields, the averages, and the names of the
\* fields that are null ($avg over no value).
StatsObject(vals, avgs, nulls) ==
    [kind |-> "stats", vals |-> vals, avgs |-> avgs, nulls |-> nulls]

\* stats[0] || fallback
FirstOr(results, fallback) ==
    IF Len(results) > 0 THEN results[1] ELSE fallback

\* $group with _id: null: one group when a document matched, none otherwise.
GroupAll(matched, group) == IF matched = {} THEN <<>> ELSE <<group>>

\* AIRequest.getStats
getStats(filters) ==
    LET m == {i \in MatchPeriod(aiRequests, "createdAt", filters, MatchUser(aiRequests, filters)) :
                /\ "model" \in DOMAIN filters => aiRequests[i].model = filters.model
                /\ "feature" \in DOMAIN filters
                      => aiRequests[i].metadata.feature = filters.feature}
        timed == {i \in m : aiRequests[i].endTime # NoDate}
        group == StatsObject(
            [totalRequests |-> CountOf(m),
             totalTokens |-> SumOf([i \in m |-> aiRequests[i].tokens.total], m),
             totalCost |-> SumOf([i \in m |-> aiRequests[i].cost], m),
             successCount |-> CountOf({i \in m : aiRequests[i].status = "completed"}),
             failureCount |-> CountOf({i \in m : aiRequests[i].status = "failed"})],
            [avgDuration |-> IF timed = {} THEN Rat(0, 1)
                             ELSE AvgOf([i \in timed |-> aiRequests[i].duration], timed)],
            IF timed = {} THEN {"avgDuration"} ELSE {})
        zero == StatsObject(
            [totalRequests |-> 0, totalTokens |-> 0, totalCost |-> 0,
             successCount |-> 0, failureCount |-> 0],
            [avgDuration |-> Rat(0, 1)], {})
    IN [Aggregate(aiRequests, m) EXCEPT !.body = FirstOr(GroupAll(m, group), zero)]

\* UserEngagement.getEngagementStats (no event of the model carries a
\* value, a timeOnPage or a scrollDepth).
getEngagementStats(filters) ==
    LET m == MatchPeriod(engagements, "timestamp", filters, MatchUser(engagements, filters))
        group == StatsObject(
            [totalEvents |-> CountOf(m),
             uniqueUsers |-> Cardinality({engagements[i].userId : i \in m}),
             uniqueSessions |-> Cardinality({engagements[i].sessionId : i \in m}),
             totalValue |-> 0],
            [avgTimeOnPage |-> Rat(0, 1), avgScrollDepth |-> Rat(0, 1)],
            {"avgTimeOnPage", "avgScrollDepth"})
        zero == StatsObject(
            [totalEvents |-> 0, uniqueUsers |-> 0, uniqueSessions |-> 0, totalValue |-> 0],
            [avgTimeOnPage |-> Rat(0, 1), avgScrollDepth |-> Rat(0, 1)], {})
    IN [Aggregate(engagements, m) EXCEPT !.body = FirstOr(GroupAll(m, group), zero)]

\* SalesAnalytics.getSalesStats (no transaction of the model carries a
\* refund object).
getSalesStats(filters) ==
    LET m == MatchPeriod(salesTx, "createdAt", filters, MatchUser(salesTx, filters))
        group == StatsObject(
            [totalTransactions |-> CountOf(m),
             totalRevenue |-> SumOf([i \in m |-> salesTx[i].amount], m),
             successfulTransactions |-> CountOf({i \in m : salesTx[i].status = "completed"}),
             failedTransactions |-> CountOf({i \in m : salesTx[i].status = "failed"}),
             refundedTransactions |-> CountOf({i \in m : salesTx[i].status = "refunded"}),
             totalRefunds |-> 0],
            [avgTransactionValue |-> AvgOf([i \in m |-> salesTx[i].amount], m)], {})
        zero == StatsObject(
            [totalTransactions |-> 0, totalRevenue |-> 0, successfulTransactions |-> 0,
             failedTransactions |-> 0, refundedTransactions |-> 0, totalRefunds |-> 0],
            [avgTransactionValue |-> Rat(0, 1)], {})
    IN [Aggregate(salesTx, m) EXCEPT !.body = FirstOr(GroupAll(m, group), zero)]

\* The answer of the store to an aggregation whose $group stage it does
\* not accept: the promise rejects.
Rejected == [kind |-> "rejected"]

\* The accumulator { $percentile: { input, p: 95 } }: MongoDB before 7.0 has
\* no $percentile accumulator, and from 7.0 on p must be an array and
\* method is required; the server rejects the pipeline either way.
PercentileAccepted(p) == FALSE

\* PerformanceMetrics.getPerformanceStats
getPerformanceStats(filters) ==
    LET m == MatchPeriod(perfSamples, "timestamp", filters, MatchUser(perfSamples, filters))
        times == [i \in m |-> perfSamples[i].responseTime]
        group == StatsObject(
            [totalRequests |-> CountOf(m),
             successCount |-> CountOf({i \in m : perfSamples[i].statusCode < 400}),
             errorCount |-> CountOf({i \in m : perfSamples[i].statusCode >= 400}),
             totalRequestSize |-> 0, totalResponseSize |-> 0],
            [avgResponseTime |-> AvgOf(times, m),
             avgCpuUsage |-> Rat(0, 1), avgMemoryUsage |-> Rat(0, 1), avgDiskUsage |-> Rat(0, 1)],
            {"avgCpuUsage", "avgMemoryUsage", "avgDiskUsage"})
        zero == StatsObject(
            [totalRequests |-> 0, minResponseTime |-> 0, maxResponseTime |-> 0,
             p95ResponseTime |-> 0, p99ResponseTime |-> 0, successCount |-> 0,
             errorCount |-> 0, totalRequestSize |-> 0, totalResponseSize |-> 0],
            [avgResponseTime |-> Rat(0, 1),
             avgCpuUsage |-> Rat(0, 1), avgMemoryUsage |-> Rat(0, 1), avgDiskUsage |-> Rat(0, 1)],
            {})
    IN [Aggregate(perfSamples, m) EXCEPT
           !.body = IF PercentileAccepted(95) /\ PercentileAccepted(99)
                    THEN FirstOr(GroupAll(m, group), zero)
                    ELSE Rejected]

\* SalesAnalytics.getRevenueByPlan: matches on status and dates only.
getRevenueByPlan(filters) ==
    LET m == {i \in 1..Len(salesTx) : salesTx[i].status = "completed"}
        plans == {salesTx[i].plan : i \in m}
        totals == [p \in plans |->
                      SumOf([i \in m |-> salesTx[i].amount], {i \in m : salesTx[i].plan = p})]
    IN [Aggregate(salesTx, m) EXCEPT !.body = [kind |-> "byPlan", totalRevenue |-> totals]]

\* Ticks in a calendar month.
TicksPerMonth == 2

MonthOf(t) == t \div TicksPerMonth

\* SalesAnalytics.getMRR(): completed subscriptions created in the month of
\* now.
getMRR(now) ==
    LET m == {i \in 1..Len(salesTx) :
                 /\ salesTx[i].status = "completed"
                 /\ salesTx[i].type = "subscription"
                 /\ MonthOf(salesTx[i].createdAt) = MonthOf(now)}
    IN FirstOr(GroupAll(m, [mrr |-> SumOf([i \in m |-> salesTx[i].amount], m),
                            subscriptionCount |-> CountOf(m)]),
               [mrr |-> 0, subscriptionCount |-> 0])

\* PerformanceMetrics.getSlowestEndpoints, getErrorRates, getSystemResources:
\* match on service and dates only.
getEndpointView(filters) ==
    Aggregate(perfSamples, 1..Len(perfSamples))

\* Faulty variant of IsError: only server errors count.
IsErrorFrom500(statusCode) == statusCode >= 500

\* cond: { $gte: ['$$this.statusCode', 400] }
IsError(statusCode) == statusCode >= 400

\* PerformanceMetrics.getErrorRates, up to the $project stage: the samples
\* are counted by (service, endpoint, method, statusCode), these counts are
\* gathered by (service, endpoint, method), and errorRate is the sum of the
\* counts whose statusCode is an error, divided by totalRequests, times 100.
ErrorRateGroups(m) ==
    LET byStatus ==
            {[_id |-> k,
              count |-> Cardinality({i \in m :
                           <<perfSamples[i].service, perfSamples[i].endpoint,
                             perfSamples[i].method, perfSamples[i].statusCode>> = k})] :
                k \in {<<perfSamples[i].service, perfSamples[i].endpoint,
                         perfSamples[i].method, perfSamples[i].statusCode>> : i \in m}}
        Of(k) == {g \in byStatus : <<g._id[1], g._id[2], g._id[3]>> = k}
        Total(k) == SumOf([g \in Of(k) |-> g.count], Of(k))
        Errors(k) == {g \in Of(k) : IsError(g._id[4])}
    IN {[_id |-> k,
         totalRequests |-> Total(k),
         errors |-> {[statusCode |-> g._id[4], count |-> g.count] : g \in Of(k)},
         errorRate |-> Rat(SumOf([g \in Errors(k) |-> g.count], Errors(k)) * 100, Total(k))] :
           k \in {<<g._id[1], g._id[2], g._id[3]>> : g \in byStatus}}

\* { $sort: { errorRate: -1 } }: an order of the groups G in which errorRate
\* never increases.
SortByErrorRate(G) ==
    {r \in [1..Cardinality(G) -> G] :
        /\ \A k, l \in DOMAIN r : k # l => r[k] # r[l]
        /\ \A k, l \in DOMAIN r :
              k < l => r[k].errorRate.sum * r[l].errorRate.count
                          >= r[l].errorRate.sum * r[k].errorRate.count}

\* AIRequest.find({ userId: req.user.id, ... }) of GET /history.
HistoryQuery(user, q) == [userId |-> user]

\* res.json(...) of a read route: the aggregate and, where the route
\* returns a second aggregate, the actors behind that one.
Result(op, user, agg, rollup) ==
    [Reply(op, 200, "done", user, "-") EXCEPT !.actors = agg.actors, !.n = agg.n,
                                              !.rollup = rollup, !.body = agg.body,
                                              !.groups = agg.groups]

\* The answer of a read route to its aggregate: the catch block answers 500
\* when the aggregation was rejected.
Respond(op, user, agg, rollup) ==
    IF agg.body = Rejected
    THEN Reply(op, 500, "store", user, "-")
    ELSE Result(op, user, agg, rollup)

\* A read route of slot s answers r.
Answer(s, r) ==
    /\ calls[s].pc = "route"
    /\ Finish(s, r)
    /\ UNCHANGED <<stores, registry, ncalls, env>>

\* GET /api/ai-tracking/stats
AIStats(s, q) ==
    Answer(s, Result("ai.stats", calls[s].user, getStats(ScopedFilters(calls[s].user, q)), {}))

\* GET /api/ai-tracking/history
AIHistory(s, q) ==
    Answer(s, Result("ai.history", calls[s].user, getStats(HistoryQuery(calls[s].user, q)), {}))

\* GET /api/analytics/engagement/stats
EngagementStats(s, q) ==
    Answer(s, Result("engagement.stats", calls[s].user,
                     getEngagementStats(ScopedFilters(calls[s].user, q)), {}))

\* GET /api/analytics/sales/stats
SalesStats(s, q) ==
    LET f == ScopedFilters(calls[s].user, q) IN
    Answer(s, [Result("sales.stats", calls[s].user, getSalesStats(f), getRevenueByPlan(f).actors)
                  EXCEPT !.revenue.byPlan = getRevenueByPlan(f).body.totalRevenue])

\* GET /api/performance/stats
PerfStats(s, q) ==
    Answer(s, Respond("perf.stats", calls[s].user,
                      getPerformanceStats(ScopedFilters(calls[s].user, q)), {}))

\* GET /api/performance/slowest-endpoints, /error-rates, /system-resources
PerfView(s, view, q) ==
    IF view = "perf.errorRates"
    THEN \E r \in SortByErrorRate(ErrorRateGroups(1..Len(perfSamples))) :
            Answer(s, [Result(view, calls[s].user, getEndpointView(RawFilters(q)), {})
                          EXCEPT !.groups = r])
    ELSE Answer(s, Result(view, calls[s].user, getEndpointView(RawFilters(q)), {}))

PerfViews == {"perf.slowest", "perf.errorRates", "perf.systemResources"}

\* Faulty variant of adminOnly: every authenticated caller passes.
adminOnlyOpen(user) == TRUE

\* middleware/auth.js adminOnly: the caller may pass.
adminOnly(user) == Role(user) = "admin"

\* const isAdmin = req.user?.role === 'admin' (routes/metrics.js)
isAdmin(user) == Role(user) = "admin"

\* The query string of GET /admin/alerts: given names the thresholds it
\* carries, the two other fields their values (whole numbers).
AlertQueries(errorRates, responseTimes) ==
    [given : SUBSET {"errorRateThreshold", "responseTimeThreshold"},
     errorRateThreshold : errorRates, responseTimeThreshold : responseTimes]

NoThresholds == [given |-> {}, errorRateThreshold |-> 0, responseTimeThreshold |-> 0]

\* parseFloat(req.query.<name>) || fallback: an absent parameter gives NaN, and
\* NaN and 0 are both falsy.
ParseFloatOr(q, name, fallback) ==
    IF name \in q.given /\ q[name] # 0 THEN q[name] ELSE fallback

\* The $group and $project stages of the alert pipeline.
AlertGroups ==
    LET all == 1..Len(perfSamples)
        KeyOf(i) == <<perfSamples[i].service, perfSamples[i].endpoint, perfSamples[i].method>>
        Of(k) == {i \in all : KeyOf(i) = k}
        Errors(k) == {i \in Of(k) : perfSamples[i].statusCode >= 400}
    IN {[_id |-> k,
         totalRequests |-> CountOf(Of(k)),
         errorCount |-> CountOf(Errors(k)),
         errorRate |-> Rat(CountOf(Errors(k)) * 100, CountOf(Of(k))),
         avgResponseTime |-> AvgOf([i \in Of(k) |-> perfSamples[i].responseTime], Of(k))] :
           k \in {KeyOf(i) : i \in all}}

\* a >= b for two fractions with positive denominators.
RatGeq(a, b) == a.sum * b.count >= b.sum * a.count

\* { $match: { $or: [{ errorRate: { $gte } }, { avgResponseTime: { $gte } }] } }
AlertMatch(G, errorRateThreshold, responseTimeThreshold) ==
    {g \in G : \/ RatGeq(g.errorRate, Rat(errorRateThreshold, 1))
               \/ RatGeq(g.avgResponseTime, Rat(responseTimeThreshold, 1))}

\* { $sort: { errorRate: -1, avgResponseTime: -1 } }: groups equal on both
\* keys come in any order.
SortAlerts(G) ==
    {r \in [1..Cardinality(G) -> G] :
        /\ \A k, l \in DOMAIN r : k # l => r[k] # r[l]
        /\ \A k, l \in DOMAIN r :
              k < l => /\ RatGeq(r[k].errorRate, r[l].errorRate)
                       /\ RatGeq(r[l].errorRate, r[k].errorRate)
                             => RatGeq(r[k].avgResponseTime, r[l].avgResponseTime)}

\* GET /api/performance/admin/alerts
Alerts(s, q) ==
    LET u == calls[s].user
        op == "perf.admin.alerts"
        errorRateThreshold == ParseFloatOr(q, "errorRateThreshold", 5)
        responseTimeThreshold == ParseFloatOr(q, "responseTimeThreshold", 2000)
        invalid ==
            (IF "errorRateThreshold" \in q.given
                   /\ (q.errorRateThreshold < 0 \/ q.errorRateThreshold > 100)
             THEN {"errorRateThreshold"} ELSE {})
            \cup (IF "responseTimeThreshold" \in q.given /\ q.responseTimeThreshold < 0
                  THEN {"responseTimeThreshold"} ELSE {}) IN
    IF ~adminOnly(u)
    THEN Answer(s, Reply(op, 403, "role", u, "-"))
    ELSE IF invalid # {}
    THEN Answer(s, [Reply(op, 400, "validate", u, "-") EXCEPT
                       !.body = [kind |-> "validation", params |-> invalid, limit |-> 0]])
    ELSE \E r \in SortAlerts(AlertMatch(AlertGroups, errorRateThreshold,
                                        responseTimeThreshold)) :
            Answer(s, [Result(op, u, getEndpointView(RawFilters([userId |-> ""])), {}) EXCEPT
                          !.body = [kind |-> "alerts", query |-> q,
                                    thresholds |-> [errorRate |-> errorRateThreshold,
                                                    responseTime |-> responseTimeThreshold]],
                          !.groups = r])

\* The routes mounted behind adminOnly, with the aggregate each returns.
\* GET /api/metrics/top-metrics?metric=&limit=
TopMetricKinds == {"ai-models", "features", "endpoints", "users", "revenue"}

\* { $match: filters }: the documents that have every field of filters with
\* the value filters gives it.
MatchFields(coll, filters) ==
    {i \in 1..Len(coll) :
        \A f \in DOMAIN filters : f \in DOMAIN coll[i] /\ coll[i][f] = filters[f]}

\* isAdmin ? {} : { userId }
TopFilters(user) == IF isAdmin(user) THEN <<>> ELSE [userId |-> user]

\* The documents a top-metrics pipeline matches, by index.
TopMatch(metric, user) ==
    IF metric = "ai-models" THEN MatchFields(aiRequests, TopFilters(user))
    ELSE IF metric = "features"
    THEN {i \in MatchFields(engagements, TopFilters(user)) : "feature" \in DOMAIN engagements[i]}
    ELSE IF metric = "endpoints" THEN MatchFields(perfSamples, TopFilters(user))
    ELSE IF metric = "users" THEN 1..Len(engagements)
    ELSE {i \in 1..Len(salesTx) : salesTx[i].status = "completed"}

TopCollection(metric) ==
    IF metric = "ai-models" THEN aiRequests
    ELSE IF metric \in {"features", "users"} THEN engagements
    ELSE IF metric = "endpoints" THEN perfSamples
    ELSE salesTx

\* The _id of the $group stage, for document d.
TopKey(metric, d) ==
    IF metric = "ai-models" THEN d.model
    ELSE IF metric = "features" THEN d.feature
    ELSE IF metric = "endpoints" THEN <<d.service, d.endpoint, d.method>>
    ELSE d.userId

\* What document d adds to the metric the groups are sorted by: count,
\* eventCount ({ $sum: 1 }) or totalRevenue ({ $sum: '$amount' }).
TopWeight(metric, d) == IF metric = "revenue" THEN d.amount ELSE 1

\* The $group stage over the documents m of coll.
TopGroups(metric, coll, m) ==
    {[_id |-> k,
      value |-> SumOf([i \in m |-> TopWeight(metric, coll[i])],
                      {i \in m : TopKey(metric, coll[i]) = k})] :
        k \in {TopKey(metric, coll[i]) : i \in m}}

\* { $sort: { <metric>: -1 } }: an order of the groups G in which the metric
\* never increases.  The stage has no other key: MongoDB's sort is not
\* stable and $group emits its groups in no defined order, so groups with
\* equal values may come in any order.
SortDescending(G) ==
    {r \in [1..Cardinality(G) -> G] :
        /\ \A k, l \in DOMAIN r : k # l => r[k] # r[l]
        /\ \A k, l \in DOMAIN r : k < l => r[k].value >= r[l].value}

\* The query string of GET /api/ai-tracking/admin/stats as the object
\* req.query: the keys the caller sent (userId "" stands for no userId).
RawQuery(q) ==
    [f \in DOMAIN q \ (IF q.userId = "" THEN {"userId"} ELSE {}) |-> q[f]]

\* The $group stage of a distribution over the documents m: one group for
\* each value of '$model' or of '$metadata.feature', with its count.
DistributionGroups(m, key) ==
    LET KeyOf(d) == IF key = "model" THEN d.model ELSE d.metadata.feature IN
    {[_id |-> k, value |-> Cardinality({i \in m : KeyOf(aiRequests[i]) = k})] :
        k \in {KeyOf(aiRequests[i]) : i \in m}}

\* GET /api/ai-tracking/admin/stats: getStats(filters), then the two
\* distributions, each over { $match: filters } with filters = req.query.
AIAdminStats(s, q) ==
    LET u == calls[s].user
        m == MatchFields(aiRequests, RawQuery(q)) IN
    IF ~adminOnly(u)
    THEN Answer(s, Reply("ai.admin.stats", 403, "role", u, "-"))
    ELSE \E modelDistribution \in SortDescending(DistributionGroups(m, "model")),
            featureDistribution \in SortDescending(DistributionGroups(m, "feature")) :
            Answer(s, [Respond("ai.admin.stats", u, getStats(q), {}) EXCEPT
                          !.distributions = <<modelDistribution, featureDistribution>>])

AdminRoutes ==
    {"ai.admin.stats", "engagement.admin.stats", "sales.admin.stats",
     "perf.admin.stats", "perf.admin.alerts"}

AdminAggregate(route, q) ==
    IF route = "ai.admin.stats" THEN getStats(RawFilters(q))
    ELSE IF route = "engagement.admin.stats" THEN getEngagementStats(RawFilters(q))
    ELSE IF route = "sales.admin.stats" THEN getSalesStats(RawFilters(q))
    ELSE IF route = "perf.admin.stats" THEN getPerformanceStats(RawFilters(q))
    ELSE getEndpointView(RawFilters(q))

AdminRoute(s, route, q) ==
    IF route = "perf.admin.alerts"
    THEN Alerts(s, NoThresholds)
    ELSE IF route = "ai.admin.stats"
    THEN AIAdminStats(s, q)
    ELSE IF adminOnly(calls[s].user)
    THEN IF route = "sales.admin.stats"
         THEN Answer(s, [Result(route, calls[s].user, AdminAggregate(route, q), {})
                            EXCEPT !.revenue = [byPlan |-> getRevenueByPlan(RawFilters(q)).body.totalRevenue,
                                                mrr |-> getMRR(clock).mrr]])
         ELSE Answer(s, Respond(route, calls[s].user, AdminAggregate(route, q), {}))
    ELSE Answer(s, Reply(route, 403, "role", calls[s].user, "-"))

\* Faulty variant of Limit: the pipeline has no $limit stage.
LimitIgnored(r, limit) == r

\* { $limit: limit }
Limit(r, limit) == [k \in 1..(IF Len(r) < limit THEN Len(r) ELSE limit) |-> r[k]]

\* The query strings of GET /top-metrics: limit may be absent.
TopQuery(metric, limits) ==
    {[metric |-> metric]} \cup {[metric |-> metric, limit |-> n] : n \in limits}

TopMetrics(s, q) ==
    LET u == calls[s].user
        metric == q.metric
        op == "top." \o metric
        limit == IF "limit" \in DOMAIN q THEN q.limit ELSE 10
        badLimit == "limit" \in DOMAIN q /\ (q.limit < 1 \/ q.limit > 50)
        coll == TopCollection(metric)
        m == TopMatch(metric, u) IN
    IF metric \notin TopMetricKinds \/ badLimit
    THEN Answer(s, [Reply(op, 400, "validate", u, "-") EXCEPT
                       !.body = [kind |-> "validation",
                                 params |-> (IF badLimit THEN {"limit"} ELSE {})
                                    \cup (IF metric \notin TopMetricKinds THEN {"metric"} ELSE {}),
                                 limit |-> limit]])
    ELSE IF metric \in {"users", "revenue"} /\ ~isAdmin(u)
    THEN Answer(s, Reply(op, 403, "role", u, "-"))
    ELSE \E r \in SortDescending(TopGroups(metric, coll, m)) :
            Answer(s, [Result(op, u, Aggregate(coll, m), {}) EXCEPT
                          !.body = [kind |-> "top", metric |-> metric, limit |-> limit],
                          !.groups = Limit(r, limit)])

\* GET /api/metrics/comparison?metric=&currentStart=...
ComparisonKinds == {"ai-requests", "engagement", "sales", "performance"}

\* currentFilters / previousFilters, with isAdmin ? f : { ...f, userId }
\* (the sales case passes the filters as they are).
PeriodFilters(metric, user, startDate, endDate) ==
    [userId |-> IF metric = "sales" THEN "" ELSE RoleFilters(user).userId,
     startDate |-> startDate, endDate |-> endDate]

ComparisonAggregate(metric, filters) ==
    IF metric = "ai-requests" THEN getStats(filters)
    ELSE IF metric = "engagement" THEN getEngagementStats(filters)
    ELSE IF metric = "sales" THEN getSalesStats(filters)
    ELSE getPerformanceStats(filters)

\* The fields of a Stats object whose typeof is 'number', with their
\* values (_id and the averages over no value are null).
NumericFields(o) == DOMAIN o.vals \cup (DOMAIN o.avgs \ o.nulls)

NumberOf(o, key) == IF key \in DOMAIN o.vals THEN Rat(o.vals[key], 1) ELSE o.avgs[key]

\* Faulty variant of PercentageChange: a previous value of 0 always gives 100.
PercentageChangeFromZeroIs100(current, previous) ==
    IF previous.sum = 0
    THEN Rat(100, 1)
    ELSE Rat((current.sum * previous.count - previous.sum * current.count) * 100,
             current.count * previous.sum)

\* The body of the loop of calculatePercentageChange, on two numbers.
PercentageChange(current, previous) ==
    IF previous.sum = 0
    THEN IF current.sum > 0 THEN Rat(100, 1) ELSE Rat(0, 1)
    ELSE Rat((current.sum * previous.count - previous.sum * current.count) * 100,
             current.count * previous.sum)

calculatePercentageChange(current, previous) ==
    [key \in NumericFields(current) \cap NumericFields(previous) |->
        PercentageChange(NumberOf(current, key), NumberOf(previous, key))]

\* periods: the four dates of the query string.
Comparison(s, metric, datesValid, periods) ==
    LET u == calls[s].user
        op == "comparison." \o metric
        cur == ComparisonAggregate(metric, PeriodFilters(metric, u, periods.currentStart,
                                                         periods.currentEnd))
        prev == ComparisonAggregate(metric, PeriodFilters(metric, u, periods.previousStart,
                                                          periods.previousEnd)) IN
    IF metric \notin ComparisonKinds \/ ~datesValid
    THEN Answer(s, Reply(op, 400, "validate", u, "-"))
    ELSE IF metric = "sales" /\ ~isAdmin(u)
    THEN Answer(s, Reply(op, 403, "role", u, "-"))
    ELSE IF cur.body = Rejected \/ prev.body = Rejected
    THEN Answer(s, Reply(op, 500, "store", u, "-"))
    ELSE Answer(s, [Result(op, u, cur, {}) EXCEPT
                       !.actors = cur.actors \cup prev.actors,
                       !.n = cur.n + prev.n,
                       !.body = [kind |-> "comparison", current |-> cur.body,
                                 previous |-> prev.body,
                                 comparison |-> calculatePercentageChange(cur.body, prev.body)]])

(***************************************************************************)
(* The service: requests are received, authenticated and handled, two at   *)
(* a time.                                                                 *)
(***************************************************************************)
Next ==
    \/ \E s \in Slots, kind \in HeaderKinds, sub \in Callers, outcome \in AuthOutcomes :
          authMiddleware(s, kind, sub, outcome)
    \/ \E s \in Slots, requestId \in RequestIds \cup {""}, model \in {"gpt-4", "bogus"},
          storeUp \in BOOLEAN :
          AITrackCheck(s, requestId, model, storeUp)
    \/ \E s \in Slots, storeUp \in BOOLEAN : AITrackSave(s, storeUp)
    \/ \E s \in Slots, requestId \in RequestIds, body \in UpdateBodies, storeUp \in BOOLEAN :
          AIUpdateCheck(s, requestId, body, storeUp)
    \/ \E s \in Slots, storeUp \in BOOLEAN : AIUpdateSave(s, storeUp)
    \/ \E s \in Slots, body \in EngagementBodies, storeUp \in BOOLEAN :
          EngagementTrack(s, body, storeUp)
    \/ \E s \in Slots, body \in SalesBodies, storeUp \in BOOLEAN :
          SalesTrackCheck(s, body, storeUp)
    \/ \E s \in Slots, storeUp \in BOOLEAN : SalesTrackSave(s, storeUp)
    \/ \E s \in Slots, body \in PerfBodies, storeUp \in BOOLEAN :
          PerfTrack(s, body, storeUp)

Spec == Init /\ [][Next]_vars
(***************************************************************************)
(* The read side: the collections are filled by well-formed ingestion      *)
(* requests handled one at a time, and queried by users and the admin.     *)
(***************************************************************************)
NextQuery ==
    \/ \E sub \in Users : authMiddleware("a", "valid", sub, "200")
    \/ \E s \in Slots, requestId \in RequestIds : AITrackCheck(s, requestId, "gpt-4", TRUE)
    \/ \E s \in Slots : AITrackSave(s, TRUE)
    \/ \E s \in Slots : EngagementTrack(s, [event |-> "login", sessionId |-> "s1"], TRUE)
    \/ \E s \in Slots, body \in {b \in SalesBodies : b.status \in SalesStatuses /\ b.amount > 0} :
          SalesTrackCheck(s, body, TRUE)
    \/ \E s \in Slots : SalesTrackSave(s, TRUE)
    \/ \E s \in Slots, body \in {b \in PerfBodies : b.statusCode = 200 /\ b.xRequestId = ""} :
          PerfTrack(s, body, TRUE)
    \/ \E s \in Slots, q \in QueryStrings : AIStats(s, q)
    \/ \E s \in Slots, q \in QueryStrings : AIHistory(s, q)
    \/ \E s \in Slots, q \in QueryStrings : EngagementStats(s, q)
    \/ \E s \in Slots, q \in QueryStrings : SalesStats(s, q)
    \/ \E s \in Slots, q \in QueryStrings : PerfStats(s, q)
    \/ \E s \in Slots, view \in PerfViews, q \in QueryStrings : PerfView(s, view, q)
    \/ \E s \in Slots, route \in AdminRoutes, q \in QueryStrings : AdminRoute(s, route, q)
    \/ \E s \in Slots, metric \in TopMetricKinds \cup {"bogus"} :
          \E q \in TopQuery(metric, {0}) : TopMetrics(s, q)
    \/ \E s \in Slots, metric \in ComparisonKinds \cup {"bogus"}, datesValid \in BOOLEAN :
          Comparison(s, metric, datesValid,
                     [currentStart |-> 1, currentEnd |-> MaxClock,
                      previousStart |-> 0, previousEnd |-> 0])

SpecQuery == Init /\ [][NextQuery]_vars

(***************************************************************************)
(* server.js: GET /metrics, the exposition endpoint (no authentication).   *)
(***************************************************************************)
\* The live value of metric m.
Live(reg, m) ==
    IF m = "ai_requests_total" THEN reg.ai_requests_total
    ELSE IF m = "ai_request_duration_seconds" THEN reg.ai_request_duration_count
    ELSE IF m = "ai_request_tokens_total" THEN reg.ai_request_tokens_total
    ELSE IF m = "ai_request_cost_total" THEN reg.ai_request_cost_total
    ELSE IF m = "user_engagement_events_total" THEN reg.user_engagement_events_total
    ELSE IF m = "sales_transactions_total" THEN reg.sales_transactions_total
    ELSE IF m = "sales_revenue_total" THEN reg.sales_revenue_total
    ELSE IF m = "http_request_duration_seconds" THEN reg.http_request_duration_count
    ELSE reg.http_requests_total

\* register.metrics(): the metrics the registry holds, with their values.
Exposition(reg, names) ==
    [kind |-> "exposition", series |-> [m \in names |-> Live(reg, m)]]

MetricsEndpoint ==
    /\ server.phase = "listening"
    /\ resp' = [Reply("metrics", 200, "done", "-", "-") EXCEPT
                   !.queried = FALSE, !.body = Exposition(registry, registered)]
    /\ UNCHANGED <<stores, registry, calls, ncalls, env>>

NextExposition ==
    \/ \E s \in Slots : authMiddleware(s, "valid", "u1", "200")
    \/ \E s \in Slots, requestId \in RequestIds : AITrackCheck(s, requestId, "gpt-4", TRUE)
    \/ \E s \in Slots : AITrackSave(s, TRUE)
    \/ MetricsEndpoint

SpecExposition == InitAnyMode /\ [][NextExposition]_vars

\* C14: in every environment mode, a snapshot taken by GET /metrics
\* reflects every increment committed before it: each custom metric that
\* has been incremented is in the snapshot with its live value (after a
\* successful AIRequest create, ai_requests_total with the incremented
\* value).
C14_SnapshotReflectsIncrements ==
    (resp.op = "metrics" /\ resp.status = 200)
        => \A m \in CustomMetrics :
              Live(registry, m) # Live(ZeroRegistry, m)
                  => /\ m \in DOMAIN resp.body.series
                     /\ resp.body.series[m] = Live(registry, m)

(***************************************************************************)
(* AIRequest life cycle under a running clock: one user creates and        *)
(* updates a request, two requests at a time, while time passes.           *)
(***************************************************************************)
\* The indexes a schema declares on its date field, in the order mongoose
\* creates them: the one of the field (index: true), then the one of
\* schema.index({ field: 1 }, { expireAfterSeconds }).
SchemaIndexes(field) ==
    <<[key |-> field, expireAfterSeconds |-> FALSE],
      [key |-> field, expireAfterSeconds |-> TRUE]>>

\* Model.ensureIndexes(): createIndex for each declaration in turn.  Both
\* declarations get the default name <field>_1; MongoDB rejects a createIndex
\* whose name is that of an existing index with other options, and
\* mongoose goes on to the next declaration.
RECURSIVE EnsureIndexes(_, _)
EnsureIndexes(declared, built) ==
    IF declared = <<>> THEN built
    ELSE EnsureIndexes(Tail(declared),
                       IF \E b \in built : b.key = Head(declared).key
                       THEN built
                       ELSE built \cup {Head(declared)})

HasTTLIndex(field) ==
    \E b \in EnsureIndexes(SchemaIndexes(field), {}) : b.expireAfterSeconds

\* The retention horizon of a domain, in ticks of 30 days:
\* PERFORMANCE_RETENTION_DAYS || 30, METRICS_RETENTION_DAYS || 90,
\* SALES_RETENTION_DAYS || 365.
RetentionTicks(domain) ==
    IF domain = "performance" THEN 1
    ELSE IF domain = "sales" THEN 12
    ELSE 3

\* What the TTL monitor of the store leaves of coll at time now: a document
\* goes once its date field is older than the horizon, if the collection
\* has a TTL index.
TTLMonitor(coll, field, domain, now) ==
    IF HasTTLIndex(field)
    THEN SelectSeq(coll, LAMBDA d : now - d[field] <= RetentionTicks(domain))
    ELSE coll

\* Time passes between two steps; the TTL monitor runs.
Tick ==
    /\ clock < MaxClock
    /\ clock' = clock + 1
    /\ aiRequests' = TTLMonitor(aiRequests, "createdAt", "ai", clock + 1)
    /\ engagements' = TTLMonitor(engagements, "timestamp", "engagement", clock + 1)
    /\ salesTx' = TTLMonitor(salesTx, "createdAt", "sales", clock + 1)
    /\ perfSamples' = TTLMonitor(perfSamples, "timestamp", "performance", clock + 1)
    /\ resp' = NoResp
    /\ UNCHANGED <<registry, calls, ncalls, registered, server>>

TimedBodies ==
    {[status |-> st, tokens |-> "absent", cost |-> 0] : st \in UpdateStatuses}

NextTime ==
    \/ Tick
    \/ \E s \in Slots : authMiddleware(s, "valid", "u1", "200")
    \/ \E s \in Slots : AITrackCheck(s, "r1", "gpt-4", TRUE)
    \/ \E s \in Slots : AITrackSave(s, TRUE)
    \/ \E s \in Slots, body \in TimedBodies : AIUpdateCheck(s, "r1", body, TRUE)
    \/ \E s \in Slots : AIUpdateSave(s, TRUE)

SpecTime == Init /\ [][NextTime]_vars

\* C12: every stored AIRequest whose status is completed has
\* performance.duration = performance.endTime - performance.startTime, and
\* the startTime of a record is the one written at creation: no step
\* changes it.
C12_DurationIsEndMinusStart ==
    [][ \A i \in 1..Len(aiRequests') :
          /\ aiRequests'[i].status = "completed"
                => /\ aiRequests'[i].endTime # NoDate
                   /\ aiRequests'[i].duration = aiRequests'[i].endTime - aiRequests'[i].startTime
          /\ i <= Len(aiRequests) => aiRequests'[i].startTime = aiRequests[i].startTime
      ]_vars

\* A request created at one time was completed at a later one.
C12_Witness ==
    /\ resp.op = "ai.update"
    /\ resp.status = 200
    /\ \E i \in 1..Len(aiRequests) :
          /\ aiRequests[i].requestId = resp.key
          /\ aiRequests[i].status = "completed"
          /\ aiRequests[i].startTime >= 1
          /\ aiRequests[i].endTime > aiRequests[i].startTime

TerminalStatuses == {"completed", "failed", "cancelled"}

\* C25: every stored AIRequest whose status is terminal (completed, failed
\* or cancelled) has performance.endTime set.
C25_TerminalHasEndTime ==
    \A i \in 1..Len(aiRequests) :
       aiRequests[i].status \in TerminalStatuses => aiRequests[i].endTime # NoDate

\* C26: once performance.endTime of a record is set, no step changes its
\* performance.endTime or its performance.duration.
C26_EndTimeSetOnce ==
    [][ \A i \in 1..Len(aiRequests) :
          aiRequests[i].endTime # NoDate
             => /\ aiRequests'[i].endTime = aiRequests[i].endTime
                /\ aiRequests'[i].duration = aiRequests[i].duration
      ]_vars

\* The place of a status in the life of a request.
StatusRank(status) ==
    IF status = "pending" THEN 0 ELSE IF status = "processing" THEN 1 ELSE 2

\* C27: the status of a record only moves forward: no step takes a record
\* out of a terminal status, or from a later status to an earlier one.
C27_StatusMovesForward ==
    [][ \A i \in 1..Len(aiRequests) :
          /\ aiRequests[i].status \in TerminalStatuses
                => aiRequests'[i].status = aiRequests[i].status
          /\ StatusRank(aiRequests'[i].status) >= StatusRank(aiRequests[i].status)
      ]_vars

(***************************************************************************)
(* GET /api/metrics/summary: the time series, under a running clock.       *)
(***************************************************************************)
GroupBys == {"hour", "day", "week", "month"}

\* $dateToString with the format of groupBy: the truncation of instant t.
\* A tick of the clock is longer than a week; a month is TicksPerMonth
\* ticks.
DateToString(t, groupBy) ==
    IF groupBy = "month" THEN MonthOf(t) * TicksPerMonth ELSE t

\* { $sort: { _id: 1 } } of a set of bucket ids.
RECURSIVE SortAscending(_)
SortAscending(ids) ==
    IF ids = {} THEN <<>>
    ELSE LET least == CHOOSE x \in ids : \A y \in ids : x <= y
         IN <<least>> \o SortAscending(ids \ {least})

\* $group by the truncated date field of the documents m of coll, sorted.
GroupByDate(coll, m, field, groupBy) ==
    LET order == SortAscending({DateToString(coll[i][field], groupBy) : i \in m})
    IN [k \in 1..Len(order) |->
           [_id |-> order[k],
            count |-> Cardinality({i \in m : DateToString(coll[i][field], groupBy) = order[k]})]]

\* isAdmin ? filters : { ...filters, userId }
SummaryFilters(user, startDate, endDate) ==
    IF isAdmin(user)
    THEN [startDate |-> startDate, endDate |-> endDate]
    ELSE [startDate |-> startDate, endDate |-> endDate, userId |-> user]

getTimeSeriesData(filters, groupBy) ==
    [aiRequests |-> GroupByDate(aiRequests, MatchFields(aiRequests, filters),
                                "createdAt", groupBy),
     engagement |-> GroupByDate(engagements, MatchFields(engagements, filters),
                                "timestamp", groupBy)]

\* GET /api/metrics/summary?startDate=&endDate=&groupBy= (NoDate: the
\* parameter is absent, "" for groupBy).
Summary(s, startDate, endDate, groupBy) ==
    LET u == calls[s].user
        by == IF groupBy = "" THEN "day" ELSE groupBy
        from == IF startDate = NoDate THEN clock - TicksPerMonth ELSE startDate
        to == IF endDate = NoDate THEN clock ELSE endDate IN
    IF groupBy \notin GroupBys \cup {""}
    THEN Answer(s, Reply("summary", 400, "validate", u, "-"))
    ELSE Answer(s, [Reply("summary", 200, "done", u, "-") EXCEPT
                       !.body = [kind |-> "series", startDate |-> from, endDate |-> to,
                                 groupBy |-> by,
                                 timeSeriesData |->
                                     getTimeSeriesData(SummaryFilters(u, from, to), by)]])

NextSeries ==
    \/ Tick
    \/ \E s \in Slots, sub \in {"u1", "adm"} : authMiddleware(s, "valid", sub, "200")
    \/ \E s \in Slots, requestId \in RequestIds : AITrackCheck(s, requestId, "gpt-4", TRUE)
    \/ \E s \in Slots : AITrackSave(s, TRUE)
    \/ \E s \in Slots : EngagementTrack(s, [event |-> "login", sessionId |-> "s1"], TRUE)
    \/ \E s \in Slots, startDate \in {NoDate, 1}, endDate \in {NoDate, MaxClock},
          groupBy \in {"", "month", "bogus"} :
          Summary(s, startDate, endDate, groupBy)

SpecSeries == Init /\ [][NextSeries]_vars

\* The documents of coll in the scope of caller user whose date field lies
\* in the inclusive range from..to.
InScopeAndRange(coll, field, user, from, to) ==
    {i \in 1..Len(coll) :
        /\ isAdmin(user) \/ coll[i].userId = user
        /\ coll[i][field] >= from
        /\ coll[i][field] <= to}

\* series counts every document of m in exactly one bucket, the truncation
\* of its date, in ascending order and with no empty bucket.
IsSeriesOf(series, coll, m, field, groupBy) ==
    /\ \A i \in m : \E k \in 1..Len(series) :
          series[k]._id = DateToString(coll[i][field], groupBy)
    /\ \A k \in 1..Len(series) :
          /\ series[k].count > 0
          /\ series[k].count
                = Cardinality({i \in m : DateToString(coll[i][field], groupBy) = series[k]._id})
    /\ \A k, l \in 1..Len(series) : k < l => series[k]._id < series[l]._id

\* C15: the series a summary query returns counts every record of the
\* caller's scope whose timestamp lies in the inclusive date range in
\* exactly one bucket, the truncation of its timestamp (so the counts sum
\* to the number of matching records), buckets ascending, none empty.
C15_SeriesCountsEveryRecordInRange ==
    (resp.op = "summary" /\ resp.status = 200)
        => LET b == resp.body IN
           /\ IsSeriesOf(b.timeSeriesData.aiRequests, aiRequests,
                         InScopeAndRange(aiRequests, "createdAt", resp.user,
                                         b.startDate, b.endDate),
                         "createdAt", b.groupBy)
           /\ IsSeriesOf(b.timeSeriesData.engagement, engagements,
                         InScopeAndRange(engagements, "timestamp", resp.user,
                                         b.startDate, b.endDate),
                         "timestamp", b.groupBy)

(***************************************************************************)
(* The read routes over collections filled before the process started:     *)
(* the store keeps its documents across a restart, the registry does not.  *)
(***************************************************************************)
\* The sequences of at most n elements of S.
SeqsUpTo(S, n) == UNION {[1..k -> S] : k \in 0..n}

\* The state once the process has started over the collections ai, sales,
\* perf and eng.
Restart(ai, sales, perf, eng) ==
    /\ server = Listening
    /\ clock = MaxClock
    /\ aiRequests = ai
    /\ salesTx = sales
    /\ perfSamples = perf
    /\ engagements = eng
    /\ registry = ZeroRegistry
    /\ calls = [s \in Slots |-> Idle]
    /\ resp = NoResp
    /\ ncalls = 0
    /\ registered = RegisteredAfterLoad("development")

\* The document POST /api/ai-tracking/track stored for userId at time t.
AIRequestAt(userId, requestId, model, t) ==
    [PreSave(NewAIRequest(userId, requestId, model)) EXCEPT !.createdAt = t, !.startTime = t]

\* The document POST /api/analytics/sales/track stored for userId at time t.
SalesTransactionAt(userId, body, t) ==
    [NewSalesTransaction(userId, body) EXCEPT !.createdAt = t]

(***************************************************************************)
(* GET /api/metrics/comparison over completed payments of u1 and at most   *)
(* one AI request.                                                         *)
(***************************************************************************)
ComparedAmounts == {5, 25, 50}

InitCompare ==
    \E pays \in SeqsUpTo(ComparedAmounts \X (1..2), 2), ais \in SeqsUpTo(1..2, 1) :
        Restart([i \in DOMAIN ais |-> AIRequestAt("u1", "r" \o ToString(i), "gpt-4", ais[i])],
                [i \in DOMAIN pays |->
                    SalesTransactionAt("u1",
                        [transactionId |-> "t" \o ToString(i), type |-> "subscription",
                         amount |-> pays[i][1], status |-> "completed", plan |-> "basic"],
                        pays[i][2])],
                <<>>, <<>>)

NextCompare ==
    \/ \E sub \in {"u1", "adm"} : authMiddleware("a", "valid", sub, "200")
    \/ \E metric \in ComparisonKinds \cup {"bogus"}, c \in 0..2, p \in 0..2 :
          Comparison("a", metric, c + p > 0,
                     [currentStart |-> c, currentEnd |-> c,
                      previousStart |-> p, previousEnd |-> p])

SpecCompare == InitCompare /\ [][NextCompare]_vars

\* C16: the comparison has one entry for every field that is a number in
\* both the current and the previous Stats object and no other entry; the
\* entry is (current - previous) / previous * 100 when previous is not 0,
\* and when previous is 0 it is 100 if current > 0 and 0 otherwise.
C16_PercentageChange ==
    (resp.body.kind = "comparison")
        => LET b == resp.body IN
           /\ DOMAIN b.comparison = NumericFields(b.current) \cap NumericFields(b.previous)
           /\ \A key \in DOMAIN b.comparison :
                 LET c == NumberOf(b.current, key)
                     p == NumberOf(b.previous, key)
                     r == b.comparison[key] IN
                 /\ r.count # 0
                 /\ p.sum # 0
                       => r.sum * c.count * p.sum
                              = (c.sum * p.count - p.sum * c.count) * 100 * r.count
                 /\ (p.sum = 0 /\ c.sum > 0) => r.sum = 100 * r.count
                 /\ (p.sum = 0 /\ c.sum <= 0) => r.sum = 0

\* A comparison of a revenue of 25 with a previous revenue of 50 gave -50,
\* and gave 0 for a field that is 0 in both periods.
C16_Witness ==
    /\ resp.op = "comparison.sales"
    /\ resp.status = 200
    /\ resp.body.current.vals.totalRevenue = 25
    /\ resp.body.previous.vals.totalRevenue = 50
    /\ resp.body.comparison.totalRevenue.sum = -50 * resp.body.comparison.totalRevenue.count
    /\ resp.body.comparison.failedTransactions.sum = 0

(***************************************************************************)
(* GET /api/metrics/top-metrics over AI requests and performance samples   *)
(* of u1.                                                                  *)
(***************************************************************************)
InitTop ==
    \E ais \in SeqsUpTo(Models, 3), perfs \in SeqsUpTo({"/login", "/me"}, 2) :
        Restart([i \in DOMAIN ais |-> AIRequestAt("u1", "r" \o ToString(i), ais[i], 1)],
                <<>>,
                [i \in DOMAIN perfs |->
                    NewPerformanceMetrics("u1", "req_" \o ToString(i),
                        [service |-> "auth", endpoint |-> perfs[i], method |-> "POST",
                         statusCode |-> 200, responseTime |-> 100])],
                <<>>)

NextTop ==
    \/ \E sub \in {"u1", "adm"} : authMiddleware("a", "valid", sub, "200")
    \/ \E metric \in TopMetricKinds \cup {"bogus"} :
          \E q \in TopQuery(metric, {0, 1, 2, 51}) : TopMetrics("a", q)

SpecTop == InitTop /\ [][NextTop]_vars

\* The groups of the documents in the caller's scope, for the metric of the
\* top-metrics reply resp.
ScopeGroups ==
    TopGroups(resp.body.metric, TopCollection(resp.body.metric),
              TopMatch(resp.body.metric, resp.user))

\* C18: a top-metrics query is answered with groups only when its limit N
\* is in 1..50; the answer holds at most N groups (all of them when there
\* are at most N), each a group of the matching records, none twice, in
\* descending order of the metric, and no group left out has a larger
\* metric than a returned one.  A limit outside 1..50 is answered 400
\* before any query is run.
C18_TopNLargestDescending ==
    /\ (resp.body.kind = "top" /\ resp.status = 200)
          => LET top == resp.groups
                 N == resp.body.limit IN
             /\ N \in 1..50
             /\ Len(top) <= N
             /\ Len(top) = N \/ Len(top) = Cardinality(ScopeGroups)
             /\ \A k \in DOMAIN top : top[k] \in ScopeGroups
             /\ \A k, l \in DOMAIN top : k # l => top[k] # top[l]
             /\ \A k, l \in DOMAIN top : k < l => top[k].value >= top[l].value
             /\ \A g \in ScopeGroups :
                   (\A k \in DOMAIN top : top[k] # g)
                       => \A k \in DOMAIN top : top[k].value >= g.value
    /\ (resp.body.kind = "validation" /\ "limit" \in resp.body.params)
          => /\ resp.status = 400
             /\ ~resp.queried
             /\ resp.body.limit \notin 1..50

\* A query with limit 1 over two models, one with more requests than the
\* other, returned the larger one only.
C18_Witness ==
    /\ resp.op = "top.ai-models"
    /\ resp.status = 200
    /\ resp.body.limit = 1
    /\ Len(resp.groups) = 1
    /\ \E g \in ScopeGroups : g.value < resp.groups[1].value

\* Index of the first document of coll among m that belongs to group g.
FirstAppearance(metric, coll, m, g) ==
    CHOOSE i \in m :
        /\ TopKey(metric, coll[i]) = g._id
        /\ \A j \in m : TopKey(metric, coll[j]) = g._id => i <= j

\* The one descending order of the groups G in which groups of equal value
\* come in the order of first appearance of their documents.
StableSortDescending(metric, coll, m, G) ==
    CHOOSE r \in SortDescending(G) :
        \A k, l \in DOMAIN r :
            (k < l /\ r[k].value = r[l].value)
                => FirstAppearance(metric, coll, m, r[k]) < FirstAppearance(metric, coll, m, r[l])

\* C19: the groups of a Top-N answer are the first N of the descending
\* order in which groups of equal metric value come in the order of first
\* appearance of their records among the matching records.
C19_TiesByFirstAppearance ==
    (resp.body.kind = "top" /\ resp.status = 200)
        => LET metric == resp.body.metric
               coll == TopCollection(metric)
               m == TopMatch(metric, resp.user) IN
           resp.groups = Limit(StableSortDescending(metric, coll, m, ScopeGroups),
                               resp.body.limit)

\* C28: a query leaves the collections and the registry as they were, and
\* its result is determined by the query and the stored data: the answer
\* given is the only one the query can give over that data, so that
\* repeating the query gives the same answer.
C28_QueriesAreRepeatable ==
    /\ [][ resp'.body.kind \in {"top", "validation"} => UNCHANGED <<stores, registry>> ]_vars
    /\ [](  (resp.body.kind = "top" /\ resp.status = 200)
               => \A r \in SortDescending(ScopeGroups) :
                     Limit(r, resp.body.limit) = resp.groups )

(***************************************************************************)
(* GET /api/performance/error-rates over samples of u1.                    *)
(***************************************************************************)
InitRates ==
    \E perfs \in SeqsUpTo({"/login", "/me"} \X {200, 404, 500}, 3) :
        Restart(<<>>, <<>>,
                [i \in DOMAIN perfs |->
                    NewPerformanceMetrics("u1", "req_" \o ToString(i),
                        [service |-> "auth", endpoint |-> perfs[i][1], method |-> "POST",
                         statusCode |-> perfs[i][2], responseTime |-> 100])],
                <<>>)

NextRates ==
    \/ \E sub \in {"u1", "u2"} : authMiddleware("a", "valid", sub, "200")
    \/ \E view \in PerfViews, q \in QueryStrings : PerfView("a", view, q)

SpecRates == InitRates /\ [][NextRates]_vars

\* The samples of group g of the error-rates view.
SamplesOf(g) ==
    {i \in 1..Len(perfSamples) :
        <<perfSamples[i].service, perfSamples[i].endpoint, perfSamples[i].method>> = g._id}

\* C20: the error-rates view has one group for every (service, endpoint,
\* method) that has samples, and the errorRate of a group is the number of
\* its samples with statusCode >= 400, divided by the number of its
\* samples, times 100.
C20_ErrorRateIsErrorShare ==
    (resp.op = "perf.errorRates" /\ resp.status = 200)
        => /\ \A i \in 1..Len(perfSamples) :
                 \E k \in DOMAIN resp.groups : i \in SamplesOf(resp.groups[k])
           /\ \A k \in DOMAIN resp.groups :
                 LET g == resp.groups[k]
                     errors == {i \in SamplesOf(g) : perfSamples[i].statusCode >= 400} IN
                 /\ g.totalRequests = Cardinality(SamplesOf(g))
                 /\ g.errorRate.count # 0
                 /\ g.errorRate.sum * Cardinality(SamplesOf(g))
                       = Cardinality(errors) * 100 * g.errorRate.count

\* A group of two samples, one answered 404 and one 200, has errorRate 50.
C20_Witness ==
    /\ resp.op = "perf.errorRates"
    /\ resp.status = 200
    /\ \E k \in DOMAIN resp.groups :
          LET g == resp.groups[k] IN
          /\ g.totalRequests = 2
          /\ \E i \in SamplesOf(g) : perfSamples[i].statusCode = 404
          /\ \E i \in SamplesOf(g) : perfSamples[i].statusCode = 200
          /\ g.errorRate.sum = 50 * g.errorRate.count

(***************************************************************************)
(* GET /api/performance/admin/alerts over samples of u1.                   *)
(***************************************************************************)
InitAlerts ==
    \E perfs \in SeqsUpTo({"/login", "/me"} \X {200, 500} \X {100, 3000}, 2) :
        Restart(<<>>, <<>>,
                [i \in DOMAIN perfs |->
                    NewPerformanceMetrics("u1", "req_" \o ToString(i),
                        [service |-> "auth", endpoint |-> perfs[i][1], method |-> "POST",
                         statusCode |-> perfs[i][2], responseTime |-> perfs[i][3]])],
                <<>>)

NextAlerts ==
    \/ \E sub \in {"u1", "adm"} : authMiddleware("a", "valid", sub, "200")
    \/ \E q \in AlertQueries({0, 50, 101}, {0, 1000}) : Alerts("a", q)

SpecAlerts == InitAlerts /\ [][NextAlerts]_vars

\* The threshold the caller asked for: the supplied value, else the default.
Wanted(q, name, default) == IF name \in q.given THEN q[name] ELSE default

\* C21: the alert scan returns exactly the (service, endpoint, method)
\* groups whose error rate is at or above the error-rate threshold or whose
\* average response time is at or above the response-time threshold, each
\* threshold being the supplied value when one is supplied and 5 (%) and
\* 2000 (ms) otherwise, sorted by error rate descending, then by response
\* time descending.
C21_AlertsMeetSuppliedThresholds ==
    (resp.body.kind = "alerts" /\ resp.status = 200)
        => LET q == resp.body.query
               alerts == resp.groups IN
           /\ {alerts[k] : k \in DOMAIN alerts}
                 = AlertMatch(AlertGroups, Wanted(q, "errorRateThreshold", 5),
                              Wanted(q, "responseTimeThreshold", 2000))
           /\ \A k, l \in DOMAIN alerts : k # l => alerts[k] # alerts[l]
           /\ \A k, l \in DOMAIN alerts :
                 k < l => /\ RatGeq(alerts[k].errorRate, alerts[l].errorRate)
                          /\ alerts[k].errorRate.sum * alerts[l].errorRate.count
                                = alerts[l].errorRate.sum * alerts[k].errorRate.count
                                => RatGeq(alerts[k].avgResponseTime, alerts[l].avgResponseTime)

(***************************************************************************)
(* server.js: startServer(), with config/database.js and config/redis.js.  *)
(***************************************************************************)
\* await connectDB(): mongoose.connect resolves, or it rejects and the
\* catch of connectDB calls process.exit(1).
connectDB(ok) ==
    /\ server.phase = "connectDB"
    /\ server' = IF ok
                 THEN [server EXCEPT !.phase = "connectRedis", !.db = "connected"]
                 ELSE [server EXCEPT !.phase = "exited", !.db = "failed"]
    /\ UNCHANGED <<stores, registry, calls, resp, ncalls, clock, registered>>

\* Faulty variant of AfterConnectRedis: a failed connection ends the process.
ExitUnlessConnected(ok) == IF ok THEN "listening" ELSE "exited"

\* What startServer() does once connectRedis() has returned: connectRedis
\* catches the error of a failed connection and returns null, so in both
\* cases startServer() goes on to app.listen.
AfterConnectRedis(ok) == "listening"

\* await connectRedis(), then app.listen(PORT).
connectRedis(ok) ==
    /\ server.phase = "connectRedis"
    /\ server' = [server EXCEPT !.phase = AfterConnectRedis(ok),
                                !.redis = IF ok THEN "ready" ELSE "failed"]
    /\ UNCHANGED <<stores, registry, calls, resp, ncalls, clock, registered>>

\* The module has been loaded and startServer() is called.
InitStart ==
    /\ server = Starting
    /\ aiRequests = <<>>
    /\ salesTx = <<>>
    /\ perfSamples = <<>>
    /\ engagements = <<>>
    /\ registry = ZeroRegistry
    /\ calls = [s \in Slots |-> Idle]
    /\ resp = NoResp
    /\ ncalls = 0
    /\ clock = 1
    /\ registered = RegisteredAfterLoad("development")

NextStart ==
    \/ \E ok \in BOOLEAN : connectDB(ok)
    \/ \E ok \in BOOLEAN : connectRedis(ok)
    \/ \E s \in Slots, sub \in {"u1"} : authMiddleware(s, "valid", sub, "200")
    \/ \E s \in Slots, requestId \in RequestIds : AITrackCheck(s, requestId, "gpt-4", TRUE)
    \/ \E s \in Slots : AITrackSave(s, TRUE)
    \/ MetricsEndpoint

\* Each awaited connection attempt comes to an end.
SpecStart ==
    /\ InitStart
    /\ [][NextStart]_vars
    /\ WF_vars(\E ok \in BOOLEAN : connectDB(ok))
    /\ WF_vars(\E ok \in BOOLEAN : connectRedis(ok))

\* C29: the service listens only once the database connection is
\* established, and no request is received or answered before it listens;
\* after a database connection failure the process has exited and never
\* listens; once the database is connected the service comes to listen,
\* and it listens also when the Redis connection has failed.
C29_ListensOnlyWithDatabase ==
    /\ [](server.phase = "listening" => server.db = "connected")
    /\ []((resp # NoResp \/ \E s \in Slots : calls[s].pc # "idle")
             => server.phase = "listening")
    /\ [](server.db = "failed" => server.phase = "exited")
    /\ [][server.phase = "exited" => server'.phase = "exited"]_vars
    /\ [](server.redis = "failed" => server.phase = "listening")
    /\ (server.db = "connected") ~> (server.phase = "listening")

\* The Redis connection failed and a request has been served since.
C29_Witness ==
    /\ server.redis = "failed"
    /\ server.phase = "listening"
    /\ resp.op = "ai.track"
    /\ resp.status = 201

(***************************************************************************)
(* GET /api/ai-tracking/admin/stats over stored requests of u1.            *)
(***************************************************************************)
\* The filters a caller may send, each with a value some record has.
AllFilters ==
    [userId |-> "", model |-> "gpt-4", feature |-> "other", startDate |-> 1, endDate |-> 2]

AdminStatsQueries ==
    {[f \in given \cup {"userId"} |-> AllFilters[f]] :
        given \in SUBSET {"model", "feature", "startDate", "endDate"}}

InitAdminStats ==
    \E ais \in SeqsUpTo({"gpt-4", "claude-3"}, 3) :
        Restart([i \in DOMAIN ais |-> AIRequestAt("u1", "r" \o ToString(i), ais[i], i)],
                <<>>, <<>>, <<>>)

NextAdminStats ==
    \/ \E sub \in {"u1", "adm"} : authMiddleware("a", "valid", sub, "200")
    \/ \E q \in AdminStatsQueries : AIAdminStats("a", q)

SpecAdminStats == InitAdminStats /\ [][NextAdminStats]_vars

\* The sum of the counts of a distribution.
TotalCount(distribution) ==
    SumOf([k \in DOMAIN distribution |-> distribution[k].value], DOMAIN distribution)

\* C30: in an answer of the admin AI stats route, the counts of
\* modelDistribution and those of featureDistribution each sum to
\* stats.totalRequests, whatever filters the query carries.
C30_DistributionsSumToTotal ==
    (resp.op = "ai.admin.stats" /\ resp.status = 200)
        => /\ TotalCount(resp.distributions[1]) = resp.body.vals.totalRequests
           /\ TotalCount(resp.distributions[2]) = resp.body.vals.totalRequests

(***************************************************************************)
(* Retention: records are ingested while time passes.                      *)
(***************************************************************************)
NextRetention ==
    \/ Tick
    \/ \E sub \in {"u1"} : authMiddleware("a", "valid", sub, "200")
    \/ \E requestId \in RequestIds : AITrackCheck("a", requestId, "gpt-4", TRUE)
    \/ AITrackSave("a", TRUE)
    \/ EngagementTrack("a", [event |-> "login", sessionId |-> "s1"], TRUE)
    \/ \E body \in {b \in SalesBodies : b.status = "completed" /\ b.amount > 0} :
          SalesTrackCheck("a", body, TRUE)
    \/ SalesTrackSave("a", TRUE)
    \/ \E body \in {b \in PerfBodies : b.statusCode = 200} : PerfTrack("a", body, TRUE)

\* Time does not stop while the clock can advance.
SpecRetention == Init /\ [][NextRetention]_vars /\ WF_vars(Tick)

\* Some document of coll is older than the horizon of its domain.
Overdue(coll, field, domain) ==
    \E i \in 1..Len(coll) : clock - coll[i][field] > RetentionTicks(domain)

\* C23: a record whose date is older than the retention horizon of its
\* domain is gone from its collection, hence from the matching set of
\* every aggregation query, by the time a whole tick has passed beyond the
\* horizon (the TTL monitor of the store runs every minute, a tick is 30
\* days); and no request handler removes a record: a step that is not the
\* passing of time leaves every stored record in its collection.
C23_OverdueRecordsExpire ==
    /\ [](~Overdue(aiRequests, "createdAt", "ai"))
    /\ [](~Overdue(engagements, "timestamp", "engagement"))
    /\ [](~Overdue(salesTx, "createdAt", "sales"))
    /\ [](~Overdue(perfSamples, "timestamp", "performance"))
    /\ [][ clock' = clock
             => /\ Len(aiRequests') >= Len(aiRequests)
                /\ Len(engagements') >= Len(engagements)
                /\ Len(salesTx') >= Len(salesTx)
                /\ Len(perfSamples') >= Len(perfSamples) ]_vars

(***************************************************************************)
(* Properties of the ingestion side (specification Spec).                  *)
(***************************************************************************)
IngestOps == {"ai.track", "ai.update", "engagement.track", "sales.track", "perf.track"}

RequestIdStored(requestId) ==
    \E i \in 1..Len(aiRequests) : aiRequests[i].requestId = requestId

TransactionIdStored(transactionId) ==
    \E i \in 1..Len(salesTx) : salesTx[i].transactionId = transactionId

\* C1: a valid create (AIRequest, SalesTransaction) whose natural key is
\* already stored when the handler checks for it never goes on to write;
\* it is answered 409 Conflict, and that answer leaves every collection
\* (so the existing record too) and the registry unchanged.
C1_DuplicateCreateIsConflict ==
    [][ /\ \A s \in Slots :
            (calls[s].pc = "route" /\ calls'[s].pc = "save" /\ calls'[s].op = "ai.track")
                => ~RequestIdStored(calls'[s].doc.requestId)
        /\ \A s \in Slots :
            (calls[s].pc = "route" /\ calls'[s].pc = "save" /\ calls'[s].op = "sales.track")
                => ~TransactionIdStored(calls'[s].doc.transactionId)
        /\ resp'.stage = "exists"
            => /\ resp'.status = 409
               /\ resp'.op \in {"ai.track", "sales.track"}
               /\ resp'.op = "ai.track" => RequestIdStored(resp'.key)
               /\ resp'.op = "sales.track" => TransactionIdStored(resp'.key)
               /\ UNCHANGED <<stores, registry>>
      ]_vars

\* A create of AIRequest r was answered 409 while r is stored and no other
\* request is in flight.
C1_Witness ==
    /\ resp.op = "ai.track"
    /\ resp.status = 409
    /\ RequestIdStored(resp.key)
    /\ \A s \in Slots : calls[s].pc = "idle"

\* C2: when two creates of the same natural key race and the store rejects
\* the second insert with a duplicate-key error, the loser is answered 409
\* Conflict, not an internal error.
C2_RaceLoserIsConflict ==
    (resp.op \in {"ai.track", "sales.track"} /\ resp.stage = "duplicate")
        => resp.status = 409

\* C22: a valid create of a PerformanceSample whose requestId is that of a
\* stored sample, reaching a store that is up, is answered 409 Conflict,
\* adds no record and leaves the registry as it was.
C22_DuplicateSampleIsConflict ==
    [][ (resp'.op = "perf.track" /\ resp'.stage \in {"duplicate", "done"}
            /\ DuplicateRequestId(perfSamples, resp'.key))
          => /\ resp'.status = 409
             /\ UNCHANGED <<perfSamples, registry>>
      ]_vars

\* C3: at most one record per natural key in the AIRequest, SalesTransaction
\* and PerformanceSample collections, in every reachable state.
C3_UniqueNaturalKeys ==
    /\ \A i, j \in 1..Len(aiRequests) :
          aiRequests[i].requestId = aiRequests[j].requestId => i = j
    /\ \A i, j \in 1..Len(salesTx) :
          salesTx[i].transactionId = salesTx[j].transactionId => i = j
    /\ \A i, j \in 1..Len(perfSamples) :
          perfSamples[i].requestId = perfSamples[j].requestId => i = j

\* The store rejected the insert of an AIRequest whose key a concurrent
\* create had written after this one's existence check.
C3_Witness ==
    /\ resp.op = "ai.track"
    /\ resp.stage = "duplicate"
    /\ RequestIdStored(resp.key)

\* C5: an ingestion or update call that ends in an error response leaves the
\* registry exactly as it was before the call's last step.
C5_ErrorLeavesRegistry ==
    [][ (resp'.op \in IngestOps /\ resp'.status >= 400) => registry' = registry ]_vars

\* C24: an AIRequest create or update that returns success has stored its
\* record and made exactly one increment of ai_requests_total, under the
\* status the record now has (pending for a create), and no other step
\* changes ai_requests_total: the total of the counter is the number of
\* successful creates and updates.
C24_OneIncrementPerSuccess ==
    [][ LET success == /\ resp'.op \in {"ai.track", "ai.update"}
                       /\ resp'.status \in {200, 201} IN
        /\ success
              => \E i \in 1..Len(aiRequests') :
                    /\ aiRequests'[i].requestId = resp'.key
                    /\ resp'.op = "ai.track" => aiRequests'[i].status = "pending"
                    /\ registry'.ai_requests_total =
                          [registry.ai_requests_total EXCEPT ![aiRequests'[i].status] = @ + 1]
        /\ ~success => registry'.ai_requests_total = registry.ai_requests_total
      ]_vars

Observations(reg) ==
    <<reg.ai_request_duration_count, reg.ai_request_tokens_total, reg.ai_request_cost_total>>

\* C6: the duration, token and cost observations of an AIRequest change only
\* in an update step in which the status of that record newly becomes
\* completed.
C6_ObservedOnceOnCompletion ==
    [][ Observations(registry') # Observations(registry)
          => /\ resp'.op = "ai.update"
             /\ \E i \in 1..Len(aiRequests) :
                   /\ aiRequests[i].requestId = resp'.key
                   /\ aiRequests[i].status # "completed"
                   /\ aiRequests'[i].status = "completed"
      ]_vars

\* C7: an update proceeds only on a record the caller owns; an update whose
\* requestId is owned by another actor is answered exactly as one whose
\* requestId does not exist (404, nothing else in the answer), and that
\* answer leaves the collections and the registry unchanged; a record is
\* modified only by an update of its owner.
C7_ForeignUpdateIsNotFound ==
    [][ /\ \A s \in Slots :
            (calls[s].pc = "route" /\ calls'[s].pc = "save" /\ calls'[s].op = "ai.update")
                => /\ calls'[s].idx \in 1..Len(aiRequests)
                   /\ aiRequests[calls'[s].idx].userId = calls[s].user
                   /\ aiRequests[calls'[s].idx].requestId = calls'[s].doc.requestId
        /\ (resp'.op = "ai.update" /\ resp'.stage = "lookup")
            => /\ resp' = [NoResp EXCEPT !.op = "ai.update", !.status = 404, !.stage = "lookup",
                                         !.user = resp'.user, !.key = resp'.key, !.queried = TRUE]
               /\ UNCHANGED <<stores, registry>>
        /\ \A i \in 1..Len(aiRequests) :
            aiRequests'[i] # aiRequests[i]
                => resp'.op = "ai.update" /\ aiRequests[i].userId = resp'.user
      ]_vars

\* An update of a requestId stored for another actor was answered 404.
C7_Witness ==
    /\ resp.op = "ai.update"
    /\ resp.status = 404
    /\ \E i \in 1..Len(aiRequests) :
          aiRequests[i].requestId = resp.key /\ aiRequests[i].userId # resp.user

\* C8: a request is in a route handler only if its identity-verification
\* call returned 200; every arriving request either enters a handler that
\* way or is answered with a failure status by the middleware, and that
\* answer changes no collection, no registry value and no request in flight.
C8_HandlerOnlyAfterVerification ==
    [][ /\ \A s \in Slots : calls'[s].pc # "idle" => calls'[s].auth = "200"
        /\ ncalls' # ncalls
            => \/ /\ resp' = NoResp
                  /\ \E s \in Slots : calls[s].pc = "idle" /\ calls'[s].pc = "route"
               \/ /\ resp'.op = "auth"
                  /\ resp'.status \in {401, 500}
                  /\ calls' = calls
                  /\ UNCHANGED <<stores, registry>>
        /\ resp'.op = "auth" => resp'.status \in {401, 500} /\ UNCHANGED <<stores, registry>>
      ]_vars

\* A request with a well-formed token was rejected because the auth service
\* did not answer in time.
C8_Witness ==
    /\ resp.op = "auth"
    /\ resp.status = 401
    /\ resp.key = "timeout"

\* C11: every AIRequest record written by the create path or the update
\* path has tokens.total = tokens.input + tokens.output, whatever total the
\* caller supplied.
C11_TokenTotalRecomputed ==
    \A i \in 1..Len(aiRequests) :
        aiRequests[i].tokens.total = aiRequests[i].tokens.input + aiRequests[i].tokens.output

\* An update whose tokens object carried a wrong total was saved.
C11_Witness ==
    /\ resp.op = "ai.update"
    /\ resp.status = 200
    /\ GivenTokens.total # GivenTokens.input + GivenTokens.output
    /\ \E i \in 1..Len(aiRequests) :
          /\ aiRequests[i].requestId = resp.key
          /\ aiRequests[i].tokens.input = GivenTokens.input
          /\ aiRequests[i].tokens.output = GivenTokens.output

(***************************************************************************)
(* Properties of the read side (specification SpecQuery).                  *)
(***************************************************************************)
ScopedReads == {"ai.stats", "ai.history", "engagement.stats", "sales.stats", "perf.stats"}

\* C4: the Stats queries (AI, engagement, sales, performance) and AI History
\* answered to a standard caller are computed only from that caller's own
\* records, whatever userId the query string supplies.
C4_StatsFromOwnRecords ==
    (resp.op \in ScopedReads /\ resp.status = 200 /\ Role(resp.user) = "user")
        => resp.actors \subseteq {resp.user}

\* Sum of the amounts of the completed transactions among those of S.
CompletedRevenue(S) ==
    LET done == {i \in S : salesTx[i].status = "completed"} IN
    SumOf([i \in done |-> salesTx[i].amount], done)

\* The Stats routes, each with the collection it aggregates.
StatsOps ==
    {"ai.stats", "ai.admin.stats", "engagement.stats", "engagement.admin.stats",
     "sales.stats", "sales.admin.stats", "perf.stats", "perf.admin.stats"}

StatsCollection(op) ==
    IF op \in {"ai.stats", "ai.admin.stats"} THEN aiRequests
    ELSE IF op \in {"engagement.stats", "engagement.admin.stats"} THEN engagements
    ELSE IF op \in {"sales.stats", "sales.admin.stats"} THEN salesTx
    ELSE perfSamples

\* A Stats object whose every numeric field is 0 and none is null.
AllZero(b) ==
    /\ b.kind = "stats"
    /\ \A key \in DOMAIN b.vals : b.vals[key] = 0
    /\ \A key \in DOMAIN b.avgs : b.avgs[key].sum = 0 /\ b.avgs[key].count # 0
    /\ b.nulls = {}

\* C17: a Stats query of any of the four domains that matches no record
\* (the collection is empty, or the filters select none of its documents)
\* is answered with a Stats object whose every numeric field is 0, none
\* null, absent or NaN.
C17_EmptyStatsAreZero ==
    /\ (resp.op \in StatsOps /\ resp.queried /\ StatsCollection(resp.op) = <<>>)
          => resp.status = 200 /\ AllZero(resp.body)
    /\ (resp.op \in StatsOps /\ resp.status = 200 /\ resp.n = 0)
          => AllZero(resp.body)

\* C13: every revenue figure sums the amounts of status=completed
\* transactions only: totalRevenue of the sales Stats (own, admin), each
\* total of revenue by plan, MRR, and the live sales_revenue_total counter.
C13_RevenueFromCompletedOnly ==
    /\ (resp.op \in {"sales.stats", "sales.admin.stats"} /\ resp.status = 200)
          => /\ resp.body.vals.totalRevenue
                   = CompletedRevenue({i \in 1..Len(salesTx) : salesTx[i].userId \in resp.actors})
             /\ \A p \in DOMAIN resp.revenue.byPlan :
                   resp.revenue.byPlan[p]
                       = CompletedRevenue({i \in 1..Len(salesTx) : salesTx[i].plan = p})
    /\ (resp.op = "sales.admin.stats" /\ resp.status = 200)
          => resp.revenue.mrr
                 = CompletedRevenue({i \in 1..Len(salesTx) : salesTx[i].type = "subscription"})
    /\ registry.sales_revenue_total = CompletedRevenue(1..Len(salesTx))

ElevatedOps == AdminRoutes \cup {"top.users", "top.revenue", "comparison.sales"}

C10_NoCrossActorAggregates ==
    /\ (resp.op \in PerfViews /\ resp.status = 200 /\ Role(resp.user) = "user")
          => resp.actors \subseteq {resp.user}
    /\ (resp.op = "sales.stats" /\ resp.status = 200 /\ Role(resp.user) = "user")
          => resp.rollup \subseteq {resp.user}
====
